---- MODULE Spec2Model ----
(***************************************************************************)
(* Model of the probabilistic projection engine of retireonbtc:            *)
(*   - simulation.py: simulate_percentiles_and_prob (streaming simulator)  *)
(*     and simulate_holdings_paths (materialising simulator);              *)
(*   - main.py: _recommend_adjustments with its nested eval_prob,          *)
(*     bracket_and_bisect and ease_bracket_and_bisect.                     *)
(* Numbers of the program are floats; the model computes the same          *)
(* expressions over exact rationals <<numerator, denominator>>.            *)
(***************************************************************************)
EXTENDS Integers, Sequences, FiniteSets, TLC

(***************************************************************************)
(* Bounds of the model.                                                    *)
(***************************************************************************)
NSims == 2          \* rows of the return-factor matrix
MaxHorizon == 3     \* life_expectancy - current_age is at most this
MaxOptHorizon == 4  \* the same, for the scenarios handed to the optimizer

(***************************************************************************)
(* Program constants.                                                      *)
(***************************************************************************)
AGE_MIN == 18               \* config.AGE_RANGE[0]
GROSS_EPS_DEN == 1000000    \* the 1e-6 of max(1e-6, 1 - tax_rate/100)

(***************************************************************************)
(* Exact rational arithmetic: a number is <<n, d>> with d > 0, in lowest   *)
(* terms.  Comparison goes through the integer parts first so that the     *)
(* cross products stay small.                                              *)
(***************************************************************************)
Abs(x) == IF x < 0 THEN -x ELSE x

RECURSIVE Gcd(_, _)
Gcd(a, b) == IF b = 0 THEN a ELSE Gcd(b, a % b)

Rat(n, d) ==
    LET g == Gcd(Abs(n), d)
    IN  IF n = 0 THEN <<0, 1>> ELSE <<n \div g, d \div g>>

R(x) == <<x, 1>>
Zero == <<0, 1>>
One == <<1, 1>>

RLe(a, b) ==
    LET fa == a[1] \div a[2]
        fb == b[1] \div b[2]
    IN  IF fa # fb THEN fa < fb
        ELSE (a[1] % a[2]) * b[2] <= (b[1] % b[2]) * a[2]

RLt(a, b) == ~RLe(b, a)

RMax(a, b) == IF RLe(a, b) THEN b ELSE a

RAdd(a, b) ==
    LET g == Gcd(a[2], b[2])
        l == (a[2] \div g) * b[2]
    IN  Rat(a[1] * (l \div a[2]) + b[1] * (l \div b[2]), l)

RNeg(a) == <<-a[1], a[2]>>

RSub(a, b) == RAdd(a, RNeg(b))

RMul(a, b) ==
    LET g1 == IF a[1] = 0 THEN 1 ELSE Gcd(Abs(a[1]), b[2])
        g2 == IF b[1] = 0 THEN 1 ELSE Gcd(Abs(b[1]), a[2])
    IN  Rat((a[1] \div g1) * (b[1] \div g2), (a[2] \div g2) * (b[2] \div g1))

\* a / b for b > 0
RDiv(a, b) == RMul(a, <<b[2], b[1]>>)


(***************************************************************************)
(* State.                                                                  *)
(*   rf, sc       : the return-factor matrix and the scenario given to the *)
(*                  two simulators                                         *)
(*   pc           : position of the run                                    *)
(*   t, price, h, alive, pct_series, prob_stream                           *)
(*                : locals and result of simulate_percentiles_and_prob     *)
(*   pt, ph, holdings, prob_paths, values                                  *)
(*                : locals and result of simulate_holdings_paths           *)
(*   projection   : the list returned by project_holdings_over_time        *)
(***************************************************************************)
VARIABLES rf, sc, pc, t, price, h, alive, pct_series, prob_stream,
          pt, ph, holdings, prob_paths, values, projection

simVars == <<rf, sc, pc, t, price, h, alive, pct_series, prob_stream,
             pt, ph, holdings, prob_paths, values, projection>>

(***************************************************************************)
(* State of one _recommend_adjustments call (main.py).                     *)
(*   call        : its arguments                                           *)
(*   opt_returns : the matrix of the call (<<>> before it is generated)    *)
(*   gens        : the calls of generate_halving_returns made so far       *)
(*   opc         : position in _recommend_adjustments                      *)
(*   loc         : its locals                                              *)
(*   bb          : the frame of the running bracket_and_bisect             *)
(*   eb          : the frame of the running ease_bracket_and_bisect        *)
(*   probes      : the arguments the running search gave to its getter     *)
(*   nsearch     : searches started so far                                 *)
(*   result      : the returned recommendation                             *)
(*   exc         : where an exception raised in the call is                *)
(*   syn         : the evaluate function of a stand-alone search           *)
(***************************************************************************)
VARIABLES call, opt_returns, gens, opc, loc, bb, eb, probes, nsearch, result,
          exc, syn

optVars == <<call, opt_returns, gens, opc, loc, bb, eb, probes, nsearch, result,
             exc, syn>>

(***************************************************************************)
(* State of the other parts of the program.                                *)
(*   now    : the wall clock, in months since the halving anchor           *)
(*   gcalls : the calls of the return-factor generators, with their results *)
(*   net    : one get_bitcoin_price call and the price service it talks to *)
(*   calc   : one call of a function of calculations.py, with its result   *)
(*   val    : one validate_inputs call, with its result                    *)
(*   qp     : st.session_state, st.query_params and the result of          *)
(*            load_from_query_params                                       *)
(***************************************************************************)
VARIABLES now, gcalls, net, calc, val, qp

extVars == <<now, gcalls, net, calc, val, qp>>

vars == <<simVars, optVars, extVars>>

\* a part of the program that is not running
Idle == [phase |-> "idle"]

ExtIdle ==
    /\ now = 0
    /\ gcalls = <<>>
    /\ net = Idle
    /\ calc = Idle
    /\ val = Idle
    /\ qp = Idle

Sims == 1..NSims

(***************************************************************************)
(* Return-factor matrices: every row is one of three positive price paths.  *)
(***************************************************************************)
Half == <<1, 2>>
Two == <<2, 1>>

RowKinds == {"bull", "bear", "dip"}

Factor(kind, y) ==
    CASE kind = "bull" -> Two
      [] kind = "bear" -> Half
      [] kind = "dip" -> IF y % 2 = 1 THEN Half ELSE Two

Matrix(kinds, years) == [i \in Sims |-> [y \in 1..years |-> Factor(kinds[i], y)]]

\* rf.shape[1]
Years(m) == Len(m[1])

Percentiles == {10, 25, 50}
TaxRates == {0, 50, 150}
GrossTaxRates == {0, 50, 99, 100, 150}
Prices == {2}
Holdings == {0, 1}
Investments == {0, 1, 2}
Spendings == {0, 1, 2}

Scenarios ==
    { [current_age |-> AGE_MIN, retirement_age |-> ra, life_expectancy |-> le,
       current_holdings |-> ch, monthly_investment |-> mi,
       monthly_spending |-> ms, tax_rate |-> tx, current_bitcoin_price |-> cp] :
        ra \in AGE_MIN + 1 .. AGE_MIN + MaxHorizon - 1,
        le \in AGE_MIN + 2 .. AGE_MIN + MaxHorizon,
        ch \in Holdings, mi \in Investments, ms \in Spendings,
        tx \in TaxRates, cp \in Prices }

ValidScenarios == { s \in Scenarios : s.retirement_age < s.life_expectancy }

(***************************************************************************)
(* Pieces shared by the two simulators.                                    *)
(***************************************************************************)
\* mutant: a sign slip, 1 + tax_rate / 100 for 1 - tax_rate / 100
GrossSignSlip(tax_rate) ==
    RDiv(One, RMax(<<1, GROSS_EPS_DEN>>, RAdd(One, Rat(tax_rate, 100))))

\* gross = 1 / max(1e-6, 1 - tax_rate / 100)
Gross(tax_rate) ==
    RDiv(One, RMax(<<1, GROSS_EPS_DEN>>, RSub(One, Rat(tax_rate, 100))))

\* mutant: no floor at zero
Floor0NoFloor(x) == x

\* np.maximum(x, 0.0)
Floor0(x) == RMax(x, Zero)

\* the k-th smallest (k = 1..n) of the values v[1..n]
KthSmallest(v, k) ==
    LET n == Cardinality(DOMAIN v)
        i == CHOOSE i \in DOMAIN v :
                 /\ Cardinality({j \in DOMAIN v : RLt(v[j], v[i])}) <= k - 1
                 /\ Cardinality({j \in DOMAIN v : RLe(v[j], v[i])}) >= k
    IN  v[i]

\* np.percentile(v, p): linear interpolation between the order statistics
Percentile(v, p) ==
    LET n == Cardinality(DOMAIN v)
        pos == Rat(p * (n - 1), 100)
        lo == pos[1] \div pos[2]
        frac == RSub(pos, R(lo))
        a == KthSmallest(v, lo + 1)
        b == IF lo + 2 <= n THEN KthSmallest(v, lo + 2) ELSE a
    IN  RAdd(a, RMul(frac, RSub(b, a)))

(***************************************************************************)
(* simulate_percentiles_and_prob: one pass of the loop body for year tt    *)
(* (0-based) on the loop state st = [price, h, alive].                     *)
(***************************************************************************)
\* mutant: the withdrawal charges at least one currency unit a month
StreamHoldingsMinSpend(hi, pi, s, tt) ==
    IF tt < s.retirement_age - s.current_age
    THEN RAdd(hi, RDiv(R(s.monthly_investment * 12), pi))
    ELSE RMax(RSub(hi, RDiv(RMul(R((IF s.monthly_spending < 1 THEN 1
                                     ELSE s.monthly_spending) * 12),
                                 Gross(s.tax_rate)), pi)), Zero)

StreamHoldings(hi, pi, s, tt) ==
    IF tt < s.retirement_age - s.current_age
    THEN RAdd(hi, RDiv(R(s.monthly_investment * 12), pi))
    ELSE Floor0(RSub(hi, RDiv(RMul(R(s.monthly_spending * 12), Gross(s.tax_rate)), pi)))

\* mutant: a future with holdings 0 still counts as alive
StreamAliveGe(ai, hi, s, tt) ==
    IF tt < s.retirement_age - s.current_age THEN ai ELSE ai /\ RLe(Zero, hi)

StreamAlive(ai, hi, s, tt) ==
    IF tt < s.retirement_age - s.current_age THEN ai ELSE ai /\ RLt(Zero, hi)

StreamBody(st, m, s, tt) ==
    LET h2 == [i \in DOMAIN m |-> StreamHoldings(st.h[i], st.price[i], s, tt)]
    IN  [ h |-> h2,
          alive |-> [i \in DOMAIN m |-> StreamAlive(st.alive[i], h2[i], s, tt)],
          price |-> [i \in DOMAIN m |-> RMul(st.price[i], m[i][tt + 1])] ]

StreamStart(m, s) ==
    [ price |-> [i \in DOMAIN m |-> R(s.current_bitcoin_price)],
      h |-> [i \in DOMAIN m |-> R(s.current_holdings)],
      alive |-> [i \in DOMAIN m |-> TRUE] ]

\* float(np.mean(alive)) if years_until_retirement < years else 1.0
StreamProb(al, m, s) ==
    IF s.retirement_age - s.current_age < Years(m)
    THEN Rat(Cardinality({i \in DOMAIN m : al[i]}), Cardinality(DOMAIN m))
    ELSE One

\* the whole loop "for t in range(years)" from the loop state st at year tt
RECURSIVE StreamLoop(_, _, _, _)
StreamLoop(st, m, s, tt) ==
    IF tt >= Years(m) THEN st
    ELSE StreamLoop(StreamBody(st, m, s, tt), m, s, tt + 1)

\* the probability returned by simulate_percentiles_and_prob(m, s)
simulate_percentiles_and_prob(m, s) ==
    StreamProb(StreamLoop(StreamStart(m, s), m, s, 0).alive, m, s)

(***************************************************************************)
(* simulate_holdings_paths.                                                *)
(***************************************************************************)
RECURSIVE CumProd(_, _)
CumProd(row, k) == IF k = 0 THEN One ELSE RMul(CumProd(row, k - 1), row[k])

\* prices[i, tt] = current_bitcoin_price * cumprod(rf)[i, tt], tt 0-based
PathsPrice(m, s, i, tt) == RMul(R(s.current_bitcoin_price), CumProd(m[i], tt + 1))

PathsHoldings(hi, m, s, i, tt) ==
    LET yur == s.retirement_age - s.current_age
    IN  IF tt < yur
        THEN RAdd(hi, RDiv(R(s.monthly_investment * 12), PathsPrice(m, s, i, tt)))
        ELSE Floor0(RSub(hi, RDiv(RMul(R(s.monthly_spending * 12), Gross(s.tax_rate)),
                                  PathsPrice(m, s, i, tt))))

\* np.all(after_retirement > 0, axis=1), mean over the simulations
PathsProb(hold, m, s) ==
    LET yur == s.retirement_age - s.current_age
    IN  IF yur < Years(m)
        THEN Rat(Cardinality({i \in Sims :
                    \A y \in yur + 1 .. Years(m) : RLt(Zero, hold[i][y])}), NSims)
        ELSE One

(***************************************************************************)
(* calculations.project_holdings_over_time (retirement_age <=              *)
(* life_expectancy, so the ValueError branch is not taken).                *)
(***************************************************************************)
GrowthRates == {0, 100}
InflationRates == {0, 100}

RECURSIVE RPow(_, _)
RPow(x, k) == IF k = 0 THEN One ELSE RMul(RPow(x, k - 1), x)

\* btc_change[y], y 0-based
BtcChange(s, g, inf, y) ==
    LET yur == s.retirement_age - s.current_age
        growth_multiplier == RAdd(One, Rat(g, 100))
        inflation_multiplier == RAdd(One, Rat(inf, 100))
        prices == RMul(R(s.current_bitcoin_price), RPow(growth_multiplier, y))
        annual_expense_at_retirement ==
            RMul(R(s.monthly_spending * 12), RPow(inflation_multiplier, yur))
        expenses_usd ==
            IF y < yur THEN Zero
            ELSE RMul(RMul(annual_expense_at_retirement,
                           RPow(inflation_multiplier, y - yur)), Gross(s.tax_rate))
        investments_usd == IF y < yur THEN R(s.monthly_investment * 12) ELSE Zero
    IN  RDiv(RSub(investments_usd, expenses_usd), prices)

\* current_holdings + np.cumsum(btc_change), at index y (0-based)
RECURSIVE CumHoldings(_, _, _, _)
CumHoldings(s, g, inf, y) ==
    IF y < 0 THEN R(s.current_holdings)
    ELSE RAdd(CumHoldings(s, g, inf, y - 1), BtcChange(s, g, inf, y))

\* mutant: one year short, the value at life_expectancy is missing
ProjectHoldingsOneShort(s, g, inf) ==
    [y \in 1 .. s.life_expectancy - s.current_age |->
        Floor0(CumHoldings(s, g, inf, y - 1))]

project_holdings_over_time(s, g, inf) ==
    [y \in 1 .. s.life_expectancy - s.current_age + 1 |->
        Floor0(CumHoldings(s, g, inf, y - 1))]

(***************************************************************************)
(* Initial state: the caller builds a matrix of                            *)
(* life_expectancy - current_age + 1 years and calls the simulators.       *)
(***************************************************************************)
SimStart ==
    /\ sc \in ValidScenarios
    /\ \E kinds \in [Sims -> RowKinds] :
           rf = Matrix(kinds, sc.life_expectancy - sc.current_age + 1)
    /\ pc = "stream"
    /\ t = 0
    /\ price = StreamStart(rf, sc).price
    /\ h = StreamStart(rf, sc).h
    /\ alive = StreamStart(rf, sc).alive
    /\ pct_series = [p \in Percentiles |-> <<>>]
    /\ prob_stream = Zero
    /\ pt = 0
    /\ ph = [i \in Sims |-> R(sc.current_holdings)]
    /\ holdings = [i \in Sims |-> [y \in 1..Years(rf) |-> Zero]]
    /\ prob_paths = Zero
    /\ values = [i \in Sims |-> [y \in 1..Years(rf) |-> Zero]]
    /\ projection = <<>>

\* one iteration of "for t in range(years)" of simulate_percentiles_and_prob
StreamYear ==
    /\ pc = "stream"
    /\ t < Years(rf)
    /\ LET st == StreamBody([price |-> price, h |-> h, alive |-> alive], rf, sc, t)
       IN  /\ h' = st.h
           /\ alive' = st.alive
           /\ price' = st.price
    /\ LET values_t == [i \in Sims |-> RMul(h'[i], price'[i])]
       IN  pct_series' = [p \in Percentiles |->
                             Append(pct_series[p], Percentile(values_t, p))]
    /\ t' = t + 1
    /\ UNCHANGED <<rf, sc, pc, prob_stream, pt, ph, holdings, prob_paths, values,
                   projection>>
    /\ UNCHANGED optVars
    /\ UNCHANGED extVars

\* the loop is over: compute prob_not_run_out and return
StreamReturn ==
    /\ pc = "stream"
    /\ t = Years(rf)
    /\ prob_stream' = StreamProb(alive, rf, sc)
    /\ pc' = "paths"
    /\ UNCHANGED <<rf, sc, t, price, h, alive, pct_series, pt, ph, holdings,
                   prob_paths, values, projection>>
    /\ UNCHANGED optVars
    /\ UNCHANGED extVars

\* one iteration of "for t in range(years)" of simulate_holdings_paths
PathsYear ==
    /\ pc = "paths"
    /\ pt < Years(rf)
    /\ ph' = [i \in Sims |-> PathsHoldings(ph[i], rf, sc, i, pt)]
    /\ holdings' = [i \in Sims |-> [holdings[i] EXCEPT ![pt + 1] = ph'[i]]]
    /\ pt' = pt + 1
    /\ UNCHANGED <<rf, sc, pc, t, price, h, alive, pct_series, prob_stream,
                   prob_paths, values, projection>>
    /\ UNCHANGED optVars
    /\ UNCHANGED extVars

\* the loop is over: prob_not_run_out and values = holdings * prices
PathsReturn ==
    /\ pc = "paths"
    /\ pt = Years(rf)
    /\ prob_paths' = PathsProb(holdings, rf, sc)
    /\ values' = [i \in Sims |-> [y \in 1..Years(rf) |->
                     RMul(holdings[i][y], PathsPrice(rf, sc, i, y - 1))]]
    /\ pc' = "done"
    /\ UNCHANGED <<rf, sc, t, price, h, alive, pct_series, prob_stream, pt, ph,
                   holdings, projection>>
    /\ UNCHANGED optVars
    /\ UNCHANGED extVars

\* the deterministic projection of the same scenario, for a growth rate and
\* an inflation rate chosen by the caller
ProjectHoldings ==
    /\ pc = "done"
    /\ \E g \in GrowthRates, inf \in InflationRates :
           projection' = project_holdings_over_time(sc, g, inf)
    /\ pc' = "projected"
    /\ UNCHANGED <<rf, sc, t, price, h, alive, pct_series, prob_stream, pt, ph,
                   holdings, prob_paths, values>>
    /\ UNCHANGED optVars
    /\ UNCHANGED extVars

SimNext == StreamYear \/ StreamReturn \/ PathsYear \/ PathsReturn \/ ProjectHoldings

(***************************************************************************)
(* main._recommend_adjustments: configuration.  Dollar amounts and years   *)
(* are integers; probabilities are rationals.                              *)
(***************************************************************************)
OPT_TARGET_PROB == <<4, 5>>
OPT_UPPER_TARGET_HINT == <<9, 10>>
OPT_GRANULARITY_DOLLARS == 10
OPT_GRANULARITY_YEARS == 1
INVESTMENT_STEP == 50
SPENDING_STEP == 100
SPENDING_MIN == 1

\* the default of the parameter "target"
Target == OPT_TARGET_PROB

Max2(a, b) == IF a >= b THEN a ELSE b
Min2(a, b) == IF a <= b THEN a ELSE b

\* int(round(x)) of a float that holds a whole number
IntRound(x) == x

\* mutant: the midpoint is snapped down to the grid, not to the nearest step
SnapMidDown(lo, hi, granularity) == ((lo + hi) \div (2 * granularity)) * granularity

\* round((lo + hi) / 2 / granularity) * granularity, round() rounding halves
\* to the even neighbour
SnapMid(lo, hi, granularity) ==
    LET q == (lo + hi) \div (2 * granularity)
        r == (lo + hi) % (2 * granularity)
        n == IF r < granularity THEN q
             ELSE IF r > granularity THEN q + 1
             ELSE IF q % 2 = 0 THEN q ELSE q + 1
    IN  n * granularity

(***************************************************************************)
(* eval_prob: the scenario it builds, and the probability it returns.      *)
(***************************************************************************)
\* mutant: the spending delta is added to the spending, not taken from it
EvalScenarioSpendingAdded(monthly_investment_delta, retirement_age_delta_years, monthly_spending_delta) ==
    LET inputs == call.inputs
    IN  [ current_age |-> inputs.current_age,
          retirement_age |-> Min2(inputs.retirement_age + retirement_age_delta_years,
                                  inputs.life_expectancy - 1),
          life_expectancy |-> inputs.life_expectancy,
          current_holdings |-> inputs.current_holdings,
          monthly_investment |->
              Max2(0, inputs.monthly_investment + monthly_investment_delta),
          monthly_spending |->
              Max2(SPENDING_MIN, inputs.monthly_spending + monthly_spending_delta),
          tax_rate |-> inputs.tax_rate,
          current_bitcoin_price |-> call.current_bitcoin_price ]

EvalScenario(monthly_investment_delta, retirement_age_delta_years, monthly_spending_delta) ==
    LET inputs == call.inputs
    IN  [ current_age |-> inputs.current_age,
          retirement_age |-> Min2(inputs.retirement_age + retirement_age_delta_years,
                                  inputs.life_expectancy - 1),
          life_expectancy |-> inputs.life_expectancy,
          current_holdings |-> inputs.current_holdings,
          monthly_investment |->
              Max2(0, inputs.monthly_investment + monthly_investment_delta),
          monthly_spending |->
              Max2(SPENDING_MIN, inputs.monthly_spending - monthly_spending_delta),
          tax_rate |-> inputs.tax_rate,
          current_bitcoin_price |-> call.current_bitcoin_price ]

eval_prob(monthly_investment_delta, retirement_age_delta_years, monthly_spending_delta) ==
    simulate_percentiles_and_prob(opt_returns,
        EvalScenario(monthly_investment_delta, retirement_age_delta_years,
                     monthly_spending_delta))

\* the evaluate function of a stand-alone search: a ramp min(1, x / k), a
\* function that is 0 everywhere, or 1 on the window a <= x < b and 0 elsewhere
SynEval(x) ==
    CASE syn.kind = "ramp" -> IF x >= syn.k THEN One ELSE Rat(x, syn.k)
      [] syn.kind = "never" -> Zero
      [] syn.kind = "window" -> IF syn.a <= x /\ x < syn.b THEN One ELSE Zero

\* the getter closures handed to the searches
Getter(g, dy, x) ==
    CASE g = "synthetic" -> SynEval(x)
      [] g = "invest" -> eval_prob(x, 0, 0)
      [] g = "retire" -> eval_prob(0, IntRound(x), 0)
      [] g = "spend" -> eval_prob(0, 0, x)
      [] g = "combo_invest" -> eval_prob(x, dy, 0)
      [] g = "combo_spend" -> eval_prob(0, dy, x)
      [] g = "ease_invest" -> eval_prob(-x, 0, 0)
      [] g = "ease_retire" -> eval_prob(0, -IntRound(x), 0)
      [] g = "ease_spend" -> eval_prob(0, 0, -x)

(***************************************************************************)
(* bracket_and_bisect, one action per evaluation of the getter.            *)
(***************************************************************************)
BBIdle ==
    [ phase |-> "idle", getter |-> "none", dy |-> 0, lower |-> 0, upper_init |-> 0,
      upper_cap |-> 0, granularity |-> 0, upper |-> 0, p_upper |-> Zero,
      lo |-> 0, hi |-> 0, best |-> 0, best_p |-> Zero,
      found |-> FALSE, value |-> 0, prob |-> Zero ]

\* the frame at entry
BBCall(g, dy, lower, upper_init, upper_cap, granularity) ==
    [ BBIdle EXCEPT !.phase = "call", !.getter = g, !.dy = dy, !.lower = lower,
                    !.upper_init = upper_init, !.upper_cap = upper_cap,
                    !.granularity = granularity ]

\* return (found, value, prob)
BBRet(b, found, value, prob) ==
    [ b EXCEPT !.phase = "ret", !.found = found, !.value = value, !.prob = prob ]

\* upper = max(upper_init, lower + granularity)
FirstUpper(b) == Max2(b.upper_init, b.lower + b.granularity)

\* upper = min(upper * 2 if upper > 0 else granularity * 2, upper_cap)
NextUpper(b) ==
    Min2(IF b.upper > 0 THEN b.upper * 2 ELSE b.granularity * 2, b.upper_cap)

\* mutant: a succeeding midpoint narrows the bracket but is not kept as best
BisectUpdateForgetsBest(b, mid, pm) ==
    IF RLe(Target, pm) THEN [b EXCEPT !.hi = mid] ELSE [b EXCEPT !.lo = mid]

\* the body of the bisection loop after pm = getter(mid)
BisectUpdate(b, mid, pm) ==
    IF RLe(Target, pm)
    THEN [b EXCEPT !.best = mid, !.best_p = pm, !.hi = mid]
    ELSE [b EXCEPT !.lo = mid]

\* p0 = getter(lower); if p0 >= target: return True, lower, p0
BB_EvalLower ==
    /\ bb.phase = "call"
    /\ LET p0 == Getter(bb.getter, bb.dy, bb.lower)
       IN  bb' = IF RLe(Target, p0) THEN BBRet(bb, TRUE, bb.lower, p0)
                 ELSE [bb EXCEPT !.phase = "upper"]
    /\ probes' = Append(probes, bb.lower)
    /\ UNCHANGED <<call, opt_returns, gens, opc, loc, eb, nsearch, result, exc, syn>>
    /\ UNCHANGED simVars
    /\ UNCHANGED extVars

\* upper = max(upper_init, lower + granularity); p_upper = getter(upper)
BB_EvalUpper ==
    /\ bb.phase = "upper"
    /\ bb' = [bb EXCEPT !.phase = "expand", !.upper = FirstUpper(bb),
                        !.p_upper = Getter(bb.getter, bb.dy, FirstUpper(bb))]
    /\ probes' = Append(probes, FirstUpper(bb))
    /\ UNCHANGED <<call, opt_returns, gens, opc, loc, eb, nsearch, result, exc, syn>>
    /\ UNCHANGED simVars
    /\ UNCHANGED extVars

\* one iteration of "while p_upper < target and upper < upper_cap"
BB_Expand ==
    /\ bb.phase = "expand"
    /\ RLt(bb.p_upper, Target)
    /\ bb.upper < bb.upper_cap
    /\ bb' = [bb EXCEPT !.upper = NextUpper(bb),
                        !.p_upper = Getter(bb.getter, bb.dy, NextUpper(bb))]
    /\ probes' = Append(probes, NextUpper(bb))
    /\ UNCHANGED <<call, opt_returns, gens, opc, loc, eb, nsearch, result, exc, syn>>
    /\ UNCHANGED simVars
    /\ UNCHANGED extVars

\* the expansion loop is left: return False, upper, p_upper, or start bisecting
BB_ExpandExit ==
    /\ bb.phase = "expand"
    /\ ~(RLt(bb.p_upper, Target) /\ bb.upper < bb.upper_cap)
    /\ bb' = IF RLt(bb.p_upper, Target) THEN BBRet(bb, FALSE, bb.upper, bb.p_upper)
             ELSE [bb EXCEPT !.phase = "bisect", !.lo = bb.lower, !.hi = bb.upper,
                             !.best = bb.upper, !.best_p = bb.p_upper]
    /\ UNCHANGED <<call, opt_returns, gens, opc, loc, eb, probes, nsearch, result,
                   exc, syn>>
    /\ UNCHANGED simVars
    /\ UNCHANGED extVars

\* one iteration of "while (hi - lo) > granularity"
BB_Bisect ==
    /\ bb.phase = "bisect"
    /\ bb.hi - bb.lo > bb.granularity
    /\ LET mid == SnapMid(bb.lo, bb.hi, bb.granularity)
       IN  /\ bb' = BisectUpdate(bb, mid, Getter(bb.getter, bb.dy, mid))
           /\ probes' = Append(probes, mid)
    /\ UNCHANGED <<call, opt_returns, gens, opc, loc, eb, nsearch, result, exc, syn>>
    /\ UNCHANGED simVars
    /\ UNCHANGED extVars

\* return True, max(granularity, best), best_p
BB_Return ==
    /\ bb.phase = "bisect"
    /\ bb.hi - bb.lo <= bb.granularity
    /\ bb' = BBRet(bb, TRUE, Max2(bb.granularity, bb.best), bb.best_p)
    /\ UNCHANGED <<call, opt_returns, gens, opc, loc, eb, probes, nsearch, result,
                   exc, syn>>
    /\ UNCHANGED simVars
    /\ UNCHANGED extVars

BBNext ==
    \/ BB_EvalLower
    \/ BB_EvalUpper
    \/ BB_Expand
    \/ BB_ExpandExit
    \/ BB_Bisect
    \/ BB_Return

(***************************************************************************)
(* ease_bracket_and_bisect, one action per evaluation of the getter.       *)
(***************************************************************************)
EBIdle ==
    [ phase |-> "idle", getter |-> "none", upper_init |-> 0, upper_cap |-> 0,
      granularity |-> 0, lo |-> 0, hi |-> 0, p_hi |-> Zero,
      left |-> 0, right |-> 0, best |-> 0, value |-> 0 ]

EBCall(g, upper_init, upper_cap, granularity) ==
    [ EBIdle EXCEPT !.phase = "call", !.getter = g, !.upper_init = upper_init,
                    !.upper_cap = upper_cap, !.granularity = granularity ]

EBRet(e, value) == [ e EXCEPT !.phase = "ret", !.value = value ]

\* lo = 0.0; hi = max(upper_init, granularity); p_hi = getter(hi)
EB_EvalHi ==
    /\ eb.phase = "call"
    /\ LET hi == Max2(eb.upper_init, eb.granularity)
       IN  /\ eb' = [eb EXCEPT !.phase = "expand", !.lo = 0, !.hi = hi,
                               !.p_hi = Getter(eb.getter, 0, hi)]
           /\ probes' = Append(probes, hi)
    /\ UNCHANGED <<call, opt_returns, gens, opc, loc, bb, nsearch, result, exc, syn>>
    /\ UNCHANGED simVars
    /\ UNCHANGED extVars

\* one iteration of "while p_hi >= target and hi < upper_cap"
EB_Expand ==
    /\ eb.phase = "expand"
    /\ RLe(Target, eb.p_hi)
    /\ eb.hi < eb.upper_cap
    /\ LET hi == Min2(eb.hi * 2, eb.upper_cap)
       IN  /\ eb' = [eb EXCEPT !.lo = eb.hi, !.hi = hi,
                               !.p_hi = Getter(eb.getter, 0, hi)]
           /\ probes' = Append(probes, hi)
    /\ UNCHANGED <<call, opt_returns, gens, opc, loc, bb, nsearch, result, exc, syn>>
    /\ UNCHANGED simVars
    /\ UNCHANGED extVars

\* the expansion loop is left: return 0.0, or start bisecting from above
EB_ExpandExit ==
    /\ eb.phase = "expand"
    /\ ~(RLe(Target, eb.p_hi) /\ eb.hi < eb.upper_cap)
    /\ eb' = IF RLt(eb.p_hi, Target) /\ eb.lo = 0 THEN EBRet(eb, 0)
             ELSE [eb EXCEPT !.phase = "bisect", !.left = eb.lo, !.right = eb.hi,
                             !.best = eb.lo]
    /\ UNCHANGED <<call, opt_returns, gens, opc, loc, bb, probes, nsearch, result,
                   exc, syn>>
    /\ UNCHANGED simVars
    /\ UNCHANGED extVars

\* one iteration of "while (right - left) > granularity"
EB_Bisect ==
    /\ eb.phase = "bisect"
    /\ eb.right - eb.left > eb.granularity
    /\ LET mid == SnapMid(eb.left, eb.right, eb.granularity)
           pm == Getter(eb.getter, 0, mid)
       IN  /\ eb' = IF RLe(Target, pm) THEN [eb EXCEPT !.best = mid, !.left = mid]
                    ELSE [eb EXCEPT !.right = mid]
           /\ probes' = Append(probes, mid)
    /\ UNCHANGED <<call, opt_returns, gens, opc, loc, bb, nsearch, result, exc, syn>>
    /\ UNCHANGED simVars
    /\ UNCHANGED extVars

\* return max(0.0, best)
EB_Return ==
    /\ eb.phase = "bisect"
    /\ eb.right - eb.left <= eb.granularity
    /\ eb' = EBRet(eb, Max2(0, eb.best))
    /\ UNCHANGED <<call, opt_returns, gens, opc, loc, bb, probes, nsearch, result,
                   exc, syn>>
    /\ UNCHANGED simVars
    /\ UNCHANGED extVars

\* the locals of _recommend_adjustments before any is assigned
LocIdle ==
    [ current_prob_opt |-> Zero,
      found_i |-> FALSE, best_i |-> 0, prob_i |-> Zero,
      found_r |-> FALSE, best_r |-> 0, prob_r |-> Zero,
      found_s |-> FALSE, best_s |-> 0, prob_s |-> Zero,
      options |-> <<>>,
      max_ease_invest |-> 0, max_ease_retire_years |-> 0, max_ease_spend |-> 0,
      dy |-> 0, best_combo_text |-> <<>>, best_combo_norm |-> Zero, combos |-> <<>> ]

NoResult == [kind |-> "none", text |-> <<>>]

(***************************************************************************)
(* Idle values of the variables a specification does not use.              *)
(***************************************************************************)
SimIdle ==
    /\ rf = <<>>
    /\ sc = [current_age |-> 0]
    /\ pc = "idle"
    /\ t = 0
    /\ price = <<>>
    /\ h = <<>>
    /\ alive = <<>>
    /\ pct_series = <<>>
    /\ prob_stream = Zero
    /\ pt = 0
    /\ ph = <<>>
    /\ holdings = <<>>
    /\ prob_paths = Zero
    /\ values = <<>>
    /\ projection = <<>>

CallIdle == [inputs |-> [current_age |-> 0], current_bitcoin_price |-> 0,
             baseline_prob |-> Zero, n_sims_used |-> 0]
SynIdle == [kind |-> "never", k |-> 1, a |-> 0, b |-> 0]

OptIdle ==
    /\ call = CallIdle
    /\ opt_returns = <<>>
    /\ gens = <<>>
    /\ opc = "idle"
    /\ loc = LocIdle
    /\ bb = BBIdle
    /\ eb = EBIdle
    /\ probes = <<>>
    /\ nsearch = 0
    /\ result = NoResult
    /\ exc = "none"
    /\ syn = SynIdle

\* the simulators run on their own, no recommendation being computed
SimInit == SimStart /\ OptIdle /\ ExtIdle

SpecSim == SimInit /\ [][SimNext]_vars

(***************************************************************************)
(* A stand-alone bracket_and_bisect over a synthetic evaluate function,    *)
(* with the steps and granularities of the three lever searches.           *)
(***************************************************************************)
SynFunctions ==
    { [kind |-> "ramp", k |-> k, a |-> 0, b |-> 0] :
          k \in {1, 10, 30, 55, 60, 100, 290, 300, 1000} }
    \cup { SynIdle }
    \cup { [kind |-> "window", k |-> 1, a |-> a, b |-> a + 25] : a \in {0, 20, 110} }

SearchShapes ==
    { [upper_init |-> Max2(50, INVESTMENT_STEP), granularity |-> OPT_GRANULARITY_DOLLARS],
      [upper_init |-> Max2(50, SPENDING_STEP), granularity |-> OPT_GRANULARITY_DOLLARS],
      [upper_init |-> 1, granularity |-> OPT_GRANULARITY_YEARS] }

SearchCaps == {0, 5, 10, 30, 73, 250, 1000}

BisectInit ==
    /\ SimIdle
    /\ ExtIdle
    /\ call = CallIdle
    /\ opt_returns = <<>>
    /\ gens = <<>>
    /\ opc = "harness"
    /\ loc = LocIdle
    /\ syn \in SynFunctions
    /\ \E shape \in SearchShapes, cap \in SearchCaps :
           bb = BBCall("synthetic", 0, 0, shape.upper_init, cap, shape.granularity)
    /\ eb = EBIdle
    /\ probes = <<>>
    /\ nsearch = 1
    /\ result = NoResult
    /\ exc = "none"

\* the caller takes the returned triple
HarnessDone ==
    /\ opc = "harness"
    /\ bb.phase = "ret"
    /\ opc' = "done"
    /\ UNCHANGED <<call, opt_returns, gens, loc, bb, eb, probes, nsearch, result,
                   exc, syn>>
    /\ UNCHANGED simVars
    /\ UNCHANGED extVars

BisectNext ==
    \/ BB_EvalLower
    \/ BB_EvalUpper
    \/ BB_Expand
    \/ BB_ExpandExit
    \/ BB_Bisect
    \/ BB_Return
    \/ HarnessDone

SpecBisect == BisectInit /\ [][BisectNext]_vars

(***************************************************************************)
(* Either search, called on its own with a synthetic evaluate function.    *)
(* A call that has been entered keeps executing statements, so the next    *)
(* step of a search that has one is eventually taken.                      *)
(***************************************************************************)
SearchInit ==
    /\ SimIdle
    /\ ExtIdle
    /\ call = CallIdle
    /\ opt_returns = <<>>
    /\ gens = <<>>
    /\ opc = "harness"
    /\ loc = LocIdle
    /\ syn \in SynFunctions
    /\ \E shape \in SearchShapes, cap \in SearchCaps :
           \/ /\ bb = BBCall("synthetic", 0, 0, shape.upper_init, cap, shape.granularity)
              /\ eb = EBIdle
           \/ /\ bb = BBIdle
              /\ eb = EBCall("synthetic", shape.upper_init, cap, shape.granularity)
    /\ probes = <<>>
    /\ nsearch = 1
    /\ result = NoResult
    /\ exc = "none"

\* the easing search has returned to the harness
HarnessEaseDone ==
    /\ opc = "harness"
    /\ eb.phase = "ret"
    /\ opc' = "done"
    /\ UNCHANGED <<call, opt_returns, gens, loc, bb, eb, probes, nsearch, result,
                   exc, syn>>
    /\ UNCHANGED simVars
    /\ UNCHANGED extVars

SearchNext ==
    \/ BB_EvalLower
    \/ BB_EvalUpper
    \/ BB_Expand
    \/ BB_ExpandExit
    \/ BB_Bisect
    \/ BB_Return
    \/ HarnessDone
    \/ EB_EvalHi
    \/ EB_Expand
    \/ EB_ExpandExit
    \/ EB_Bisect
    \/ EB_Return
    \/ HarnessEaseDone

SpecSearchFair == SearchInit /\ [][SearchNext]_vars /\ WF_vars(SearchNext)

(***************************************************************************)
(* main._recommend_adjustments.  Simulation counts are counted in blocks   *)
(* of 1000 paths, one row of a matrix standing for a block of paths that   *)
(* share their returns; monthly amounts are whole dollars, multiples of 4  *)
(* so that the percentage caps are whole dollars too.                      *)
(***************************************************************************)
AGE_MAX == 120
SIM_FAST == 1
SIM_ACCURATE == 10
OPT_SIMS_MIN == 5
OPT_SEED == 12345
OPT_MAX_TOTAL_INVESTMENT == 500000
OPT_MAX_EXPENSE_CUT_PCT == <<1, 2>>
OPT_MAX_RETIRE_DELAY_YEARS == 10
OPT_ALTERNATE_COUNT == 1
OPT_WEIGHT_INVEST == One
OPT_WEIGHT_EXPENSE == One
OPT_WEIGHT_RETIRE_YEAR == <<3, 4>>
OPT_MAX_EXPENSE_INCREASE_PCT == <<1, 4>>

\* the largest number of rows of a generated matrix that are not bull rows
MaxBad == 3

\* the matrices generate_halving_returns may return for a count and a horizon:
\* bull rows followed by at most MaxBad rows of one other kind
ReturnMatrix(kinds, years) ==
    [i \in DOMAIN kinds |-> [y \in 1..years |-> Factor(kinds[i], y)]]

ReturnMatrices(n_sims, years) ==
    { ReturnMatrix([i \in 1..n_sims |-> IF i <= n_sims - kb[1] THEN "bull" ELSE kb[2]],
                   years) : kb \in (0..Min2(n_sims, MaxBad)) \X {"bear", "dip"} }

\* years = inputs["life_expectancy"] - inputs["current_age"] + 1
HorizonYears(inputs) == inputs.life_expectancy - inputs.current_age + 1

\* mutant: the optimizer reuses the caller's simulation count
OptSimsOfCaller(n_sims_used) == n_sims_used

\* n_sims_opt = max(n_sims_used, OPT_SIMS_MIN)
OptSims(n_sims_used) == Max2(n_sims_used, OPT_SIMS_MIN)

\* a whole number held in a float
Whole(r) == r[1] \div r[2]

base_invest == call.inputs.monthly_investment
base_spend == call.inputs.monthly_spending
base_retire == call.inputs.retirement_age

max_retire_years ==
    Max2(0, Min2(OPT_MAX_RETIRE_DELAY_YEARS,
                 Min2(AGE_MAX - 1 - base_retire,
                      call.inputs.life_expectancy - 1 - base_retire)))

invest_delta_cap ==
    Max2(0, Max2(OPT_MAX_TOTAL_INVESTMENT, base_invest) - base_invest)

spend_delta_cap ==
    Max2(0, Min2(Whole(RMul(R(base_spend), OPT_MAX_EXPENSE_CUT_PCT)),
                 base_spend - SPENDING_MIN))

invest_reduce_cap == base_invest

\* mutant: the advance may bring retirement down to current_age itself
MaxAdvanceToCurrentAge == Max2(0, base_retire - call.inputs.current_age)

max_advance_years == Max2(0, base_retire - (call.inputs.current_age + 1))

spend_increase_cap == Whole(RMul(R(base_spend), OPT_MAX_EXPENSE_INCREASE_PCT))

\* max(1, inputs["retirement_age"] - current_age)
RetireHorizon == Max2(1, call.inputs.retirement_age - call.inputs.current_age)

\* the feasible single-lever options, in the order they are appended
CollectOptions(l) ==
    (IF l.found_i /\ l.best_i > 0
     THEN << [key |-> "invest", amount |-> l.best_i,
              norm |-> RMul(OPT_WEIGHT_INVEST, Rat(l.best_i, Max2(base_invest, 1)))] >>
     ELSE <<>>)
    \o (IF l.found_r /\ l.best_r > 0
        THEN << [key |-> "retire", amount |-> l.best_r,
                 norm |-> RMul(OPT_WEIGHT_RETIRE_YEAR, Rat(l.best_r, RetireHorizon))] >>
        ELSE <<>>)
    \o (IF l.found_s /\ l.best_s > 0
        THEN << [key |-> "spend", amount |-> l.best_s,
                 norm |-> RMul(OPT_WEIGHT_EXPENSE, Rat(l.best_s, Max2(base_spend, 1)))] >>
        ELSE <<>>)

\* options.sort(key=lambda x: x[1]): a stable sort by normalized cost
InsertOption(o, sorted) ==
    LET k == Cardinality({j \in DOMAIN sorted : RLe(sorted[j].norm, o.norm)})
    IN  SubSeq(sorted, 1, k) \o <<o>> \o SubSeq(sorted, k + 1, Len(sorted))

RECURSIVE SortOptions(_)
SortOptions(options) ==
    IF options = <<>> THEN <<>>
    ELSE InsertOption(options[Len(options)],
                      SortOptions(SubSeq(options, 1, Len(options) - 1)))

\* the primary recommendation and its alternate
OptionsResult(options) ==
    LET sorted == SortOptions(options)
        alternates == SubSeq(sorted, 2, Min2(Len(sorted), 1 + OPT_ALTERNATE_COUNT))
    IN  IF alternates # <<>>
        THEN [kind |-> "primary_alternate", text |-> <<sorted[1], alternates[1]>>]
        ELSE [kind |-> "primary", text |-> <<sorted[1]>>]

\* the phrases of the easing message
EasePhrases(l) ==
    (IF l.max_ease_invest > 0
     THEN << [key |-> "invest", amount |-> l.max_ease_invest] >> ELSE <<>>)
    \o (IF l.max_ease_retire_years > 0
        THEN << [key |-> "retire", amount |-> l.max_ease_retire_years] >> ELSE <<>>)
    \o (IF l.max_ease_spend > 0
        THEN << [key |-> "spend", amount |-> l.max_ease_spend] >> ELSE <<>>)

EaseResult(l) ==
    IF EasePhrases(l) = <<>> THEN [kind |-> "ease_none", text |-> <<>>]
    ELSE [kind |-> "ease", text |-> EasePhrases(l)]

Infeasible == [kind |-> "infeasible", text |-> <<>>]

\* the calls of the searches
InvestSearch(g, dy) ==
    BBCall(g, dy, 0, Max2(50, INVESTMENT_STEP), invest_delta_cap,
           OPT_GRANULARITY_DOLLARS)
RetireSearch == BBCall("retire", 0, 0, 1, max_retire_years, OPT_GRANULARITY_YEARS)
SpendSearch(g, dy) ==
    BBCall(g, dy, 0, Max2(50, SPENDING_STEP), spend_delta_cap,
           OPT_GRANULARITY_DOLLARS)
EaseInvestSearch ==
    EBCall("ease_invest", Max2(50, INVESTMENT_STEP), invest_reduce_cap,
           OPT_GRANULARITY_DOLLARS)
EaseRetireSearch == EBCall("ease_retire", 1, max_advance_years, OPT_GRANULARITY_YEARS)
EaseSpendSearch ==
    EBCall("ease_spend", Max2(50, SPENDING_STEP), spend_increase_cap,
           OPT_GRANULARITY_DOLLARS)

\* the code between "try:" and "except Exception:"
TryBlock ==
    {"entry", "baseline", "invest", "retire", "spend", "ease_invest", "ease_retire",
     "ease_spend", "combo_invest", "combo_spend"}

\* mutant: the matrix is generated before the try block is entered
GuardedAfterGenerate(site) == site \in TryBlock \ {"entry"}

\* an exception raised at this place is caught by "except Exception"
Guarded(site) == site \in TryBlock

\* opt_returns = generate_halving_returns(years, n_sims_opt, seed=seed_opt, ...)
Generate ==
    /\ opc = "entry"
    /\ LET years == HorizonYears(call.inputs)
           n_sims_opt == OptSims(call.n_sims_used)
       IN  /\ gens' = Append(gens, [years |-> years, n_sims |-> n_sims_opt,
                                    seed |-> OPT_SEED])
           /\ opt_returns' \in ReturnMatrices(n_sims_opt, years)
    /\ opc' = "baseline"
    /\ UNCHANGED <<call, loc, bb, eb, probes, nsearch, result, exc, syn>>
    /\ UNCHANGED simVars
    /\ UNCHANGED extVars

\* current_prob_opt = eval_prob(0.0, 0, 0.0), the band check, and the call of
\* the search for the monthly investment increase
EvalBaseline ==
    /\ opc = "baseline"
    /\ loc' = [loc EXCEPT !.current_prob_opt = eval_prob(0, 0, 0)]
    /\ IF /\ RLe(OPT_TARGET_PROB, loc'.current_prob_opt)
          /\ RLe(loc'.current_prob_opt, OPT_UPPER_TARGET_HINT)
       THEN /\ result' = [kind |-> "no_change", text |-> <<>>]
            /\ opc' = "returned"
            /\ UNCHANGED <<bb, nsearch>>
       ELSE /\ bb' = InvestSearch("invest", 0)
            /\ nsearch' = nsearch + 1
            /\ opc' = "invest"
            /\ UNCHANGED result
    /\ UNCHANGED <<call, opt_returns, gens, eb, probes, exc, syn>>
    /\ UNCHANGED simVars
    /\ UNCHANGED extVars

\* found_i, best_i, prob_i = ...; the call of the search for the delay
TakeInvest ==
    /\ opc = "invest"
    /\ bb.phase = "ret"
    /\ loc' = [loc EXCEPT !.found_i = bb.found, !.best_i = bb.value,
                          !.prob_i = bb.prob]
    /\ bb' = RetireSearch
    /\ probes' = <<>>
    /\ nsearch' = nsearch + 1
    /\ opc' = "retire"
    /\ UNCHANGED <<call, opt_returns, gens, eb, result, exc, syn>>
    /\ UNCHANGED simVars
    /\ UNCHANGED extVars

\* found_r, best_r_f, prob_r = ...; best_r = int(round(best_r_f)); the call of
\* the search for the expense cut
TakeRetire ==
    /\ opc = "retire"
    /\ bb.phase = "ret"
    /\ loc' = [loc EXCEPT !.found_r = bb.found, !.best_r = IntRound(bb.value),
                          !.prob_r = bb.prob]
    /\ bb' = SpendSearch("spend", 0)
    /\ probes' = <<>>
    /\ nsearch' = nsearch + 1
    /\ opc' = "spend"
    /\ UNCHANGED <<call, opt_returns, gens, eb, result, exc, syn>>
    /\ UNCHANGED simVars
    /\ UNCHANGED extVars

\* found_s, best_s, prob_s = ...; the options; then the easing block, the
\* combination block, the ranking of the options, or the fallback message
TakeSpend ==
    /\ opc = "spend"
    /\ bb.phase = "ret"
    /\ LET l1 == [loc EXCEPT !.found_s = bb.found, !.best_s = bb.value,
                             !.prob_s = bb.prob]
           l2 == [l1 EXCEPT !.options = CollectOptions(l1)]
       IN  IF RLt(OPT_UPPER_TARGET_HINT, l2.current_prob_opt)
           THEN /\ loc' = l2
                /\ eb' = EaseInvestSearch
                /\ bb' = BBIdle
                /\ nsearch' = nsearch + 1
                /\ opc' = "ease_invest"
                /\ UNCHANGED result
           ELSE IF RLt(l2.current_prob_opt, Target) /\ l2.options = <<>>
           THEN IF 1 <= max_retire_years
                THEN /\ loc' = [l2 EXCEPT !.dy = 1]
                     /\ bb' = InvestSearch("combo_invest", 1)
                     /\ nsearch' = nsearch + 1
                     /\ opc' = "combo_invest"
                     /\ UNCHANGED <<eb, result>>
                ELSE /\ loc' = l2
                     /\ result' = Infeasible
                     /\ bb' = BBIdle
                     /\ opc' = "returned"
                     /\ UNCHANGED <<eb, nsearch>>
           ELSE /\ loc' = l2
                /\ result' = IF l2.options # <<>> THEN OptionsResult(l2.options)
                             ELSE [kind |-> "fallback", text |-> <<>>]
                /\ bb' = BBIdle
                /\ opc' = "returned"
                /\ UNCHANGED <<eb, nsearch>>
    /\ probes' = <<>>
    /\ UNCHANGED <<call, opt_returns, gens, exc, syn>>
    /\ UNCHANGED simVars
    /\ UNCHANGED extVars

\* max_ease_invest = ...; the search for the retirement advance when
\* max_advance_years > 0, else the search for the expense increase
TakeEaseInvest ==
    /\ opc = "ease_invest"
    /\ eb.phase = "ret"
    /\ loc' = [loc EXCEPT !.max_ease_invest = eb.value,
                          !.max_ease_retire_years = 0]
    /\ IF max_advance_years > 0
       THEN eb' = EaseRetireSearch /\ opc' = "ease_retire"
       ELSE eb' = EaseSpendSearch /\ opc' = "ease_spend"
    /\ probes' = <<>>
    /\ nsearch' = nsearch + 1
    /\ UNCHANGED <<call, opt_returns, gens, bb, result, exc, syn>>
    /\ UNCHANGED simVars
    /\ UNCHANGED extVars

\* max_ease_retire_years = int(round(...)); the search for the expense increase
TakeEaseRetire ==
    /\ opc = "ease_retire"
    /\ eb.phase = "ret"
    /\ loc' = [loc EXCEPT !.max_ease_retire_years = IntRound(eb.value)]
    /\ eb' = EaseSpendSearch
    /\ probes' = <<>>
    /\ nsearch' = nsearch + 1
    /\ opc' = "ease_spend"
    /\ UNCHANGED <<call, opt_returns, gens, bb, result, exc, syn>>
    /\ UNCHANGED simVars
    /\ UNCHANGED extVars

\* max_ease_spend = ...; the phrases and the easing message
TakeEaseSpend ==
    /\ opc = "ease_spend"
    /\ eb.phase = "ret"
    /\ loc' = [loc EXCEPT !.max_ease_spend = eb.value]
    /\ result' = EaseResult(loc')
    /\ eb' = EBIdle
    /\ probes' = <<>>
    /\ opc' = "returned"
    /\ UNCHANGED <<call, opt_returns, gens, bb, nsearch, exc, syn>>
    /\ UNCHANGED simVars
    /\ UNCHANGED extVars

\* "if norm < best_combo_norm", best_combo_norm starting at float("inf")
\* (combos records every combination that passed "if found and best > 0")
ComboUpdate(l, key, found, best, base) ==
    LET norm == RAdd(Rat(best, Max2(base, 1)), Rat(l.dy, RetireHorizon))
        combo == [key |-> key, dy |-> l.dy, amount |-> best]
        seen == IF found /\ best > 0 THEN [l EXCEPT !.combos = Append(l.combos, combo)]
                ELSE l
    IN  IF found /\ best > 0 /\ (l.best_combo_text = <<>> \/ RLt(norm, l.best_combo_norm))
        THEN [seen EXCEPT !.best_combo_norm = norm, !.best_combo_text = <<combo>>]
        ELSE seen

\* ci_found, ci_best, _ = ...; the search for the expense cut given dy
TakeComboInvest ==
    /\ opc = "combo_invest"
    /\ bb.phase = "ret"
    /\ loc' = ComboUpdate(loc, "invest", bb.found, bb.value, base_invest)
    /\ bb' = SpendSearch("combo_spend", loc.dy)
    /\ probes' = <<>>
    /\ nsearch' = nsearch + 1
    /\ opc' = "combo_spend"
    /\ UNCHANGED <<call, opt_returns, gens, eb, result, exc, syn>>
    /\ UNCHANGED simVars
    /\ UNCHANGED extVars

\* cs_found, cs_best, _ = ...; the next dy, or the message after the loop
TakeComboSpend ==
    /\ opc = "combo_spend"
    /\ bb.phase = "ret"
    /\ LET l1 == ComboUpdate(loc, "spend", bb.found, bb.value, base_spend)
       IN  IF loc.dy < max_retire_years
           THEN /\ loc' = [l1 EXCEPT !.dy = loc.dy + 1]
                /\ bb' = InvestSearch("combo_invest", loc.dy + 1)
                /\ nsearch' = nsearch + 1
                /\ opc' = "combo_invest"
                /\ UNCHANGED result
           ELSE /\ loc' = l1
                /\ result' = IF l1.best_combo_text # <<>>
                             THEN [kind |-> "combo", text |-> l1.best_combo_text]
                             ELSE Infeasible
                /\ bb' = BBIdle
                /\ opc' = "returned"
                /\ UNCHANGED nsearch
    /\ probes' = <<>>
    /\ UNCHANGED <<call, opt_returns, gens, eb, exc, syn>>
    /\ UNCHANGED simVars
    /\ UNCHANGED extVars

\* a statement of the function raises an exception: control leaves the
\* statement, and the handler is entered when the statement is in the try block
Raise ==
    /\ opc \in TryBlock
    /\ exc = "none"
    /\ exc' = opc
    /\ opc' = IF Guarded(opc) THEN "except" ELSE "propagated"
    /\ loc' = LocIdle
    /\ bb' = BBIdle
    /\ eb' = EBIdle
    /\ probes' = <<>>
    /\ UNCHANGED <<call, opt_returns, gens, nsearch, result, syn>>
    /\ UNCHANGED simVars
    /\ UNCHANGED extVars

\* except Exception: return ""
Handler ==
    /\ opc = "except"
    /\ result' = [kind |-> "empty", text |-> <<>>]
    /\ opc' = "returned"
    /\ UNCHANGED <<call, opt_returns, gens, loc, bb, eb, probes, nsearch, exc, syn>>
    /\ UNCHANGED simVars
    /\ UNCHANGED extVars

\* the inputs of the form and the call made by render_results: the caller's
\* probability comes from its own matrix of SIM_FAST or SIM_ACCURATE paths
OptInvestments == {50, 2000, 96000, 500000}
OptSpendings == {100, 150000}

OptInputs ==
    { [current_age |-> AGE_MIN, retirement_age |-> ra,
       life_expectancy |-> AGE_MIN + MaxOptHorizon, current_holdings |-> 0,
       monthly_investment |-> mi, monthly_spending |-> ms, tax_rate |-> 0] :
        ra \in AGE_MIN + 1 .. AGE_MIN + MaxOptHorizon - 1,
        mi \in OptInvestments, ms \in OptSpendings }

CallerScenario(inputs, current_bitcoin_price) ==
    [ current_age |-> inputs.current_age, retirement_age |-> inputs.retirement_age,
      life_expectancy |-> inputs.life_expectancy,
      current_holdings |-> inputs.current_holdings,
      monthly_investment |-> inputs.monthly_investment,
      monthly_spending |-> inputs.monthly_spending, tax_rate |-> inputs.tax_rate,
      current_bitcoin_price |-> current_bitcoin_price ]

Calls ==
    UNION { { [ inputs |-> inputs, current_bitcoin_price |-> cp, n_sims_used |-> n,
                baseline_prob |->
                    simulate_percentiles_and_prob(returns, CallerScenario(inputs, cp)) ] :
              returns \in ReturnMatrices(n, HorizonYears(inputs)) } :
            inputs \in OptInputs, cp \in Prices, n \in {SIM_FAST, SIM_ACCURATE} }

OptInit ==
    /\ SimIdle
    /\ ExtIdle
    /\ call \in Calls
    /\ opt_returns = <<>>
    /\ gens = <<>>
    /\ opc = "entry"
    /\ loc = LocIdle
    /\ bb = BBIdle
    /\ eb = EBIdle
    /\ probes = <<>>
    /\ nsearch = 0
    /\ result = NoResult
    /\ exc = "none"
    /\ syn = SynIdle

OptNext ==
    \/ Generate
    \/ EvalBaseline
    \/ BB_EvalLower
    \/ BB_EvalUpper
    \/ BB_Expand
    \/ BB_ExpandExit
    \/ BB_Bisect
    \/ BB_Return
    \/ TakeInvest
    \/ TakeRetire
    \/ TakeSpend
    \/ EB_EvalHi
    \/ EB_Expand
    \/ EB_ExpandExit
    \/ EB_Bisect
    \/ EB_Return
    \/ TakeEaseInvest
    \/ TakeEaseRetire
    \/ TakeEaseSpend
    \/ TakeComboInvest
    \/ TakeComboSpend
    \/ Raise
    \/ Handler

SpecOpt == OptInit /\ [][OptNext]_vars

(***************************************************************************)
(* The return-factor generators of simulation.py.  Log returns live on a   *)
(* grid of whole multiples of ln 2, so that exp(z) is the rational 2^z;    *)
(* a random generator is the entropy it was built from, and its k-th draw  *)
(* is a function of that entropy.                                          *)
(***************************************************************************)
HALVING_CYCLE_MONTHS == 48
PRICE_DECAY_YEARS_SCALE == 42

\* seed=None, target_arith_return_pct=None
None == -1

\* np.random.default_rng(seed): the entropy the generator is built from is
\* the seed, or whatever the operating system hands out when seed is None
default_rng(seed) == IF seed = None THEN {7, 9} ELSE {seed}

\* the k-th standard normal draw (k from 0) of the generator built from e
StandardNormal(e, k) ==
    LET Scores == <<-4, -1, 0, 1, 2>>
    IN  Scores[((e * (2 * k + 1) + k) % Len(Scores)) + 1]

\* _compute_halving_phases: the phase 0..3 of year y (1-based) seen from the
\* month nw = months_since_anchor
\* mutant: the offset of the start of the year, not of its middle
HalvingPhaseStartOfYear(nw, y) == ((nw + (y - 1) * 12) % HALVING_CYCLE_MONTHS) \div 12

halving_phase(nw, y) == ((nw + (y - 1) * 12 + 6) % HALVING_CYCLE_MONTHS) \div 12

\* compute_mu_log_schedule, year y (1-based): mu0 = log1p(g) with g the
\* target or 0.10, decay = 1 / (1 + y / PRICE_DECAY_YEARS_SCALE), the
\* zero-centred phase tilt and the phase volatility, all rounded to the grid
compute_mu_log_schedule(target_arith_return_pct, nw, y) ==
    LET phase_mu_log_tilt == <<1, 0, -1, 0>>
        phase_sigma_log == <<1, 1, 1, 1>>
        g == IF target_arith_return_pct = None THEN 10 ELSE target_arith_return_pct
        mu0 == IF g >= 300 THEN 2 ELSE IF g >= 100 THEN 1 ELSE 0
        scale == PRICE_DECAY_YEARS_SCALE + (y - 1)
        decayed == (2 * mu0 * PRICE_DECAY_YEARS_SCALE + scale) \div (2 * scale)
    IN  [ mu |-> decayed + phase_mu_log_tilt[halving_phase(nw, y) + 1],
          sigma |-> phase_sigma_log[halving_phase(nw, y) + 1] ]

\* generate_halving_returns with the generator built from entropy e, called
\* in month nw (now is None: date.today()); numpy refuses a negative
\* dimension and returns an empty array for an empty one
generate_halving_returns(years, n_sims, e, target_arith_return_pct, nw) ==
    LET sched(y) == compute_mu_log_schedule(target_arith_return_pct, nw, y)
        z(i, y) == sched(y).mu + sched(y).sigma * StandardNormal(e, (i - 1) * years + (y - 1))
        exp(x) == IF x >= 0 THEN <<2^x, 1>> ELSE <<1, 2^(-x)>>
    IN  IF years < 0 \/ n_sims < 0
        THEN [ok |-> FALSE, error |-> "ValueError", matrix |-> <<>>]
        ELSE [ok |-> TRUE, error |-> "",
              matrix |-> [i \in 1..n_sims |-> [y \in 1..years |-> exp(z(i, y))]]]

\* simulate_regime_shift_returns with the generator built from entropy e:
\* the regime flags, then the bull draws normal(0.3, 0.2), then the bear
\* draws normal(-0.1, 0.25), the shift to the target mean, and 1 + return
\* (returns in hundredths)
simulate_regime_shift_returns(years, n_sims, e, target_arith_return_pct) ==
    LET size == n_sims * years
        k(i, y) == (i - 1) * years + (y - 1)
        regimes(i, y) == (e + k(i, y)) % 2 = 0
        bull(i, y) == 30 + 20 * StandardNormal(e, size + k(i, y))
        bear(i, y) == -10 + 25 * StandardNormal(e, 2 * size + k(i, y))
        shift == IF target_arith_return_pct = None THEN 0
                 ELSE target_arith_return_pct - 10
        returns(i, y) == (IF regimes(i, y) THEN bull(i, y) ELSE bear(i, y)) + shift
    IN  IF years < 0 \/ n_sims < 0
        THEN [ok |-> FALSE, error |-> "ValueError", matrix |-> <<>>]
        ELSE [ok |-> TRUE, error |-> "",
              matrix |-> [i \in 1..n_sims |-> [y \in 1..years |->
                             Rat(100 + returns(i, y), 100)]]]

\* the month of the first call: September 2026, 29 months after April 2024
ClockStart == 29
\* months the clock may advance, and calls made
MaxTicks == 1
MaxCalls == 3

\* one call of a generator in month nw, as the caller sees it
GenCallRecord(fn, years, n_sims, seed, target, e, nw) ==
    [ fn |-> fn, years |-> years, n_sims |-> n_sims, seed |-> seed,
      target_arith_return_pct |-> target, entropy |-> e, now |-> nw,
      out |-> IF fn = "halving"
              THEN generate_halving_returns(years, n_sims, e, target, nw)
              ELSE simulate_regime_shift_returns(years, n_sims, e, target) ]

\* nothing outside the simulator and the optimizer has been called yet
AppQuiet ==
    /\ gcalls = <<>>
    /\ net = Idle
    /\ calc = Idle
    /\ val = Idle
    /\ qp = Idle

\* time passes between two calls
Tick ==
    /\ now < ClockStart + MaxTicks
    /\ now' = now + 1
    /\ UNCHANGED <<gcalls, net, calc, val, qp>>
    /\ UNCHANGED <<simVars, optVars>>

\* a first call of one of the generators (the program seeds with
\* FAST_MODE_SEED = 42 or with None)
GenCall ==
    /\ AppQuiet
    /\ \E fn \in {"halving", "regime"}, years \in {-1, 0, 2}, n_sims \in {0, 1},
          seed \in {42, None}, target \in {None, 100} :
         \E e \in default_rng(seed) :
           gcalls' = <<GenCallRecord(fn, years, n_sims, seed, target, e, now)>>
    /\ UNCHANGED <<now, net, calc, val, qp>>
    /\ UNCHANGED <<simVars, optVars>>

\* the same call again, with the same arguments
GenRepeat ==
    /\ gcalls # <<>>
    /\ gcalls[Len(gcalls)].fn \in {"halving", "regime"}
    /\ Len(gcalls) < MaxCalls
    /\ LET c == gcalls[1]
       IN  \E e \in default_rng(c.seed) :
             gcalls' = Append(gcalls,
                 GenCallRecord(c.fn, c.years, c.n_sims, c.seed,
                               c.target_arith_return_pct, e, now))
    /\ UNCHANGED <<now, net, calc, val, qp>>
    /\ UNCHANGED <<simVars, optVars>>

\* simulate_percentiles_and_prob on the matrix just generated, for a
\* scenario of any ordering of current_age and retirement_age
GenSimulate ==
    /\ gcalls # <<>>
    /\ Len(gcalls) < MaxCalls
    /\ LET c == gcalls[Len(gcalls)]
       IN  /\ c.fn = "halving"
           /\ c.out.ok
           /\ c.n_sims >= 1
           /\ c.years >= 1
           /\ \E ra \in AGE_MIN .. AGE_MIN + 2 :
                LET s == [current_age |-> AGE_MIN + 1, retirement_age |-> ra,
                          life_expectancy |-> AGE_MIN + 2, current_holdings |-> 1,
                          monthly_investment |-> 1, monthly_spending |-> 1,
                          tax_rate |-> 0, current_bitcoin_price |-> 2]
                IN  gcalls' = Append(gcalls,
                        [ fn |-> "simulate", scenario |-> s,
                          out |-> [ok |-> TRUE, error |-> "",
                                   prob |-> simulate_percentiles_and_prob(c.out.matrix, s)] ])
    /\ UNCHANGED <<now, net, calc, val, qp>>
    /\ UNCHANGED <<simVars, optVars>>

(***************************************************************************)
(* get_bitcoin_price of utils.py: one call, one loop iteration per step.   *)
(* Delays are whole seconds.                                               *)
(***************************************************************************)
DEFAULT_MAX_ATTEMPTS == 3
DEFAULT_FALLBACK_PRICE == 100000

\* what the price service may do with one request: refuse it, or answer
\* with a JSON body carrying a number in one field
Responses ==
    {[field |-> "none", price |-> 0]}
        \cup [field : {"USD", "Price"}, price : {0, 12345}]

\* float(data["Price"]) and the check that follows: the price, or 0 when
\* the attempt raised (RequestException, KeyError, ValueError)
PriceOf(response) ==
    IF response.field = "Price" /\ response.price > 0 THEN response.price ELSE 0

\* delay = base_delay * (2 ** attempt)
BackoffConstant(base_delay, attempt) == base_delay
Backoff(base_delay, attempt) == base_delay * 2^attempt

\* the call: Python binds the keyword arguments before the body runs, and
\* the signature of lines 123-128 has no quick_fail
PriceCall ==
    /\ AppQuiet
    /\ \E ma \in {0, 1, 2, DEFAULT_MAX_ATTEMPTS}, bd \in {1, 2}, j \in {0, 2}, qf \in {"absent", "True"} :
         net' = [ phase |-> IF qf = "absent" THEN "loop" ELSE "TypeError",
                  max_attempts |-> ma, base_delay |-> bd, jitter |-> j,
                  fallback_price |-> DEFAULT_FALLBACK_PRICE, quick_fail |-> qf,
                  sessions |-> IF qf = "absent" THEN 1 ELSE 0,
                  attempt |-> 0, responses |-> <<>>, sleeps |-> <<>>,
                  warnings |-> 0, price |-> 0 ]
    /\ UNCHANGED <<now, gcalls, calc, val, qp>>
    /\ UNCHANGED <<simVars, optVars>>

\* one iteration of the loop of lines 151-183
PriceAttempt ==
    /\ net.phase = "loop"
    /\ net.attempt < net.max_attempts
    /\ \E response \in Responses, u \in 0..net.jitter :
         LET seen == Append(net.responses, response)
             delay == Backoff(net.base_delay, net.attempt) + (IF net.jitter # 0 THEN u ELSE 0)
         IN  IF PriceOf(response) > 0
             THEN net' = [net EXCEPT !.phase = "returned", !.responses = seen,
                                     !.price = PriceOf(response)]
             ELSE net' = [net EXCEPT !.responses = seen,
                                     !.warnings = @ + 1,
                                     !.sleeps = IF net.attempt < net.max_attempts - 1
                                                THEN Append(@, delay) ELSE @,
                                     !.attempt = @ + 1]
    /\ UNCHANGED <<now, gcalls, calc, val, qp>>
    /\ UNCHANGED <<simVars, optVars>>

\* lines 185-191: every attempt failed
PriceFallback ==
    /\ net.phase = "loop"
    /\ net.attempt >= net.max_attempts
    /\ net' = [net EXCEPT !.phase = "returned", !.warnings = @ + 1,
                          !.price = net.fallback_price]
    /\ UNCHANGED <<now, gcalls, calc, val, qp>>
    /\ UNCHANGED <<simVars, optVars>>

(***************************************************************************)
(* calculations.py: calculate_bitcoin_needed, and one call of a function   *)
(* of the module with the result the caller gets.                          *)
(***************************************************************************)
calculate_total_future_expenses(annual_expense, years, inflation_rate) ==
    LET rate == Rat(inflation_rate, 100)
    IN  IF inflation_rate = 0 THEN RMul(annual_expense, R(years))
        ELSE RMul(RMul(annual_expense,
                       RDiv(RSub(RPow(RAdd(One, rate), years), One), rate)),
                  RAdd(One, rate))

\* the sum of yearly_expenses / projected_prices over retirement_years[from..]
RECURSIVE SumBitcoinNeeded(_, _, _, _, _)
SumBitcoinNeeded(s, g, inf, k, last) ==
    IF k > last THEN Zero
    ELSE RAdd(RDiv(RMul(RMul(R(s.monthly_spending * 12), RPow(RAdd(One, Rat(inf, 100)), k)),
                        Gross(s.tax_rate)),
                   RMul(R(s.current_bitcoin_price), RPow(RAdd(One, Rat(g, 100)), k))),
              SumBitcoinNeeded(s, g, inf, k + 1, last))

\* the fields of the RetirementPlan that do not depend on calculate_future_value
calculate_bitcoin_needed(s, g, inf) ==
    LET years_until_retirement == s.retirement_age - s.current_age
        retirement_duration == s.life_expectancy - s.retirement_age
        annual_expense_at_retirement ==
            RMul(R(s.monthly_spending * 12),
                 RPow(RAdd(One, Rat(inf, 100)), years_until_retirement))
    IN  [ bitcoin_needed |->
              SumBitcoinNeeded(s, g, inf, years_until_retirement,
                               years_until_retirement + retirement_duration - 1),
          annual_expense_at_retirement |-> annual_expense_at_retirement,
          future_bitcoin_price |->
              RMul(R(s.current_bitcoin_price),
                   RPow(RAdd(One, Rat(g, 100)), years_until_retirement)),
          total_retirement_expenses |->
              calculate_total_future_expenses(annual_expense_at_retirement,
                                              retirement_duration, inf) ]

\* a call of project_holdings_over_time (retirement_age <= life_expectancy)
CalcProject ==
    /\ AppQuiet
    /\ \E s \in Scenarios, g \in GrowthRates, inf \in InflationRates :
         calc' = [ phase |-> "returned", fn |-> "project_holdings_over_time",
                   s |-> s, bitcoin_growth_rate |-> g, inflation_rate |-> inf,
                   out |-> project_holdings_over_time(s, g, inf) ]
    /\ UNCHANGED <<now, gcalls, net, val, qp>>
    /\ UNCHANGED <<simVars, optVars>>

\* a call of calculate_bitcoin_needed
CalcNeeded ==
    /\ AppQuiet
    /\ \E s \in Scenarios, g \in GrowthRates, inf \in InflationRates :
         /\ s.tax_rate < 100
         /\ calc' = [ phase |-> "returned", fn |-> "calculate_bitcoin_needed",
                      s |-> s, bitcoin_growth_rate |-> g, inflation_rate |-> inf,
                      out |-> calculate_bitcoin_needed(s, g, inf) ]
    /\ UNCHANGED <<now, gcalls, net, val, qp>>
    /\ UNCHANGED <<simVars, optVars>>

(***************************************************************************)
(* validation.py: validate_inputs, amounts in whole dollars and coins.     *)
(***************************************************************************)
RATE_MIN == 0
HOLDINGS_MAX == 21000000

\* the error list of validate_inputs, in the order of the checks
validate_inputs(a) ==
    LET InAgeRange(x) == AGE_MIN <= x /\ x <= AGE_MAX
        Error(cond, text) == IF cond THEN <<text>> ELSE <<>>
    IN  Error(~InAgeRange(a.current_age), "Current age must be between")
        \o Error(a.retirement_age <= a.current_age \/ ~InAgeRange(a.retirement_age),
                 "Retirement age must be greater than current age and between")
        \o Error(a.life_expectancy <= a.retirement_age \/ ~InAgeRange(a.life_expectancy),
                 "Life expectancy must be greater than retirement age and between")
        \o Error(a.monthly_spending < SPENDING_MIN, "Monthly spending must be at least")
        \o Error(a.bitcoin_growth_rate < RATE_MIN, "Bitcoin growth rate cannot be negative")
        \o Error(a.inflation_rate < RATE_MIN, "Inflation rate cannot be negative")
        \o Error(a.current_holdings < RATE_MIN \/ a.current_holdings > HOLDINGS_MAX,
                 "Current Bitcoin holdings must be between 0 and 21,000,000")
        \o Error(a.monthly_investment < RATE_MIN, "Monthly investment cannot be negative")
        \o Error(a.bitcoin_growth_rate > RATE_MIN /\ a.monthly_investment = RATE_MIN,
                 "Monthly investment must be positive if growth rate is positive")

\* a call of validate_inputs
ValidateCall ==
    /\ AppQuiet
    /\ \E a \in [ current_age : {AGE_MIN - 1, 21}, retirement_age : {21, 67},
                  life_expectancy : {67, 85}, monthly_spending : {SPENDING_MIN - 1, SPENDING_MIN},
                  bitcoin_growth_rate : {-1, 0, 21}, inflation_rate : {-1, 5},
                  current_holdings : {-1, 0, HOLDINGS_MAX + 1},
                  monthly_investment : {-1, 0, 500} ] :
         val' = [phase |-> "returned", a |-> a, errors |-> validate_inputs(a)]
    /\ UNCHANGED <<now, gcalls, net, calc, qp>>
    /\ UNCHANGED <<simVars, optVars>>

\* main.validate_form_inputs: the form's inputs, tax_rate included, are
\* handed to validate_inputs as nine positional arguments, one more than
\* its signature takes
ValidateForm ==
    /\ AppQuiet
    /\ \E a \in [ current_age : {21}, retirement_age : {21, 67},
                  life_expectancy : {85}, monthly_spending : {-1, 5000},
                  bitcoin_growth_rate : {21}, inflation_rate : {-1, 5},
                  current_holdings : {-1, 0}, monthly_investment : {-1, 500},
                  tax_rate : {-1, 15, 60} ] :
         val' = [phase |-> "TypeError", a |-> a, errors |-> <<>>]
    /\ UNCHANGED <<now, gcalls, net, calc, qp>>
    /\ UNCHANGED <<simVars, optVars>>

(***************************************************************************)
(* utils.py: the query-parameter functions.  A Python value is a record    *)
(* of its type, its number (an int, or a float in tenths) and its text, a *)
(* sequence of characters.                                                 *)
(***************************************************************************)
PyInt(n) == [type |-> "int", n |-> n, text |-> <<>>]
PyFloat(tenths) == [type |-> "float", n |-> tenths, text |-> <<>>]
PyText(chars) == [type |-> "str", n |-> 0, text |-> chars]

\* QUERY_PARAM_DEFAULTS (amounts scaled down, the types kept)
QUERY_PARAM_DEFAULTS ==
    [ current_age |-> PyInt(21), retirement_age |-> PyInt(67),
      life_expectancy |-> PyInt(85), monthly_spending |-> PyFloat(500),
      bitcoin_growth_rate_label |-> PyText(<<"L", "o", "w">>),
      inflation_rate |-> PyFloat(50), current_holdings |-> PyFloat(1),
      monthly_investment |-> PyFloat(50) ]

\* str(value), for values from 0 to 999.9
PyStr(value) ==
    LET d(n) == <<"0", "1", "2", "3", "4", "5", "6", "7", "8", "9">>[n + 1]
        Digits(n) == IF n < 10 THEN <<d(n)>>
                     ELSE IF n < 100 THEN <<d(n \div 10), d(n % 10)>>
                     ELSE <<d(n \div 100), d((n \div 10) % 10), d(n % 10)>>
    IN  CASE value.type = "int" -> Digits(value.n)
          [] value.type = "float" -> Digits(value.n \div 10) \o <<".", d(value.n % 10)>>
          [] OTHER -> value.text

\* int(text) and float(text): the value read, or ValueError.  int accepts
\* digits only; float accepts digits with at most one point among them.
PyParse(text) ==
    LET DigitOf(c) == CASE c = "0" -> 0 [] c = "1" -> 1 [] c = "2" -> 2 [] c = "3" -> 3
                        [] c = "4" -> 4 [] c = "5" -> 5 [] c = "6" -> 6 [] c = "7" -> 7
                        [] c = "8" -> 8 [] c = "9" -> 9 [] OTHER -> -1
        points == {i \in DOMAIN text : text[i] = "."}
        digits == {i \in DOMAIN text : DigitOf(text[i]) >= 0}
        p == IF points = {} THEN Len(text) + 1 ELSE CHOOSE i \in points : TRUE
        num[i \in 0..Len(text)] ==
            IF i = 0 THEN 0
            ELSE IF i \in digits THEN 10 * num[i - 1] + DigitOf(text[i]) ELSE num[i - 1]
        well_formed == /\ digits # {}
                       /\ digits \cup points = DOMAIN text
                       /\ Cardinality(points) <= 1
                       /\ Len(text) - p <= 1
    IN  [ int_ok |-> well_formed /\ points = {},
          float_ok |-> well_formed,
          int |-> num[Len(text)],
          tenths |-> IF p = Len(text) - 1 THEN num[Len(text)] ELSE 10 * num[Len(text)] ]

\* mutant: every numeric default is read with int()
CoerceAllWithInt(raw, default) ==
    IF default.type = "str" THEN PyText(raw)
    ELSE IF PyParse(raw).int_ok
         THEN IF default.type = "int" THEN PyInt(PyParse(raw).int)
              ELSE PyFloat(10 * PyParse(raw).int)
         ELSE default

\* _coerce_value(raw, default), raw a text of the URL
coerce_value(raw, default) ==
    IF default.type = "int"
    THEN IF PyParse(raw).int_ok THEN PyInt(PyParse(raw).int) ELSE default
    ELSE IF default.type = "float"
    THEN IF PyParse(raw).float_ok THEN PyFloat(PyParse(raw).tenths) ELSE default
    ELSE PyText(raw)

\* update_query_params on a session state some caller has filled: every
\* key holds a value of its default's type or of another type
QpUpdate ==
    /\ AppQuiet
    /\ \E session \in [ current_age : {PyInt(30), PyFloat(300)},
                        retirement_age : {PyInt(65)},
                        life_expectancy : {PyInt(90), PyText(<<"9", "0">>)},
                        monthly_spending : {PyFloat(400), PyInt(40)},
                        bitcoin_growth_rate_label : {PyText(<<"H", "i">>), PyInt(7)},
                        inflation_rate : {PyFloat(25), PyText(<<"2", ".", "5">>)},
                        current_holdings : {PyFloat(5), PyText(<<"x">>)},
                        monthly_investment : {PyFloat(100)} ] :
         qp' = [ phase |-> "url", session_state |-> session,
                 query_params |-> [key \in DOMAIN QUERY_PARAM_DEFAULTS |-> PyStr(session[key])],
                 written |-> session, dropped |-> {},
                 inputs |-> <<>>, all_present |-> FALSE ]
    /\ UNCHANGED <<now, gcalls, net, calc, val>>
    /\ UNCHANGED <<simVars, optVars>>

\* the URL is opened without one of the parameters
QpDropKey ==
    /\ qp.phase = "url"
    /\ qp.dropped = {}
    /\ \E key \in DOMAIN QUERY_PARAM_DEFAULTS : qp' = [qp EXCEPT !.dropped = {key}]
    /\ UNCHANGED <<now, gcalls, net, calc, val>>
    /\ UNCHANGED <<simVars, optVars>>

\* load_from_query_params in a new session: session_state starts empty
QpLoad ==
    /\ qp.phase = "url"
    /\ LET inputs == [key \in DOMAIN QUERY_PARAM_DEFAULTS |->
                          IF key \in qp.dropped THEN QUERY_PARAM_DEFAULTS[key]
                          ELSE coerce_value(qp.query_params[key], QUERY_PARAM_DEFAULTS[key])]
       IN  qp' = [qp EXCEPT !.phase = "loaded",
                            !.session_state = inputs, !.inputs = inputs,
                            !.all_present = (qp.dropped = {})]
    /\ UNCHANGED <<now, gcalls, net, calc, val>>
    /\ UNCHANGED <<simVars, optVars>>

(***************************************************************************)
(* _compute_halving_phases called with an explicit date, and the first     *)
(* loop iteration of simulate_percentiles_and_prob in IEEE arithmetic: a   *)
(* float is a rational, or <<1, 0>> for inf and <<0, 0>> for nan.          *)
(***************************************************************************)
\* months before and after the anchor, and simulated years
MaxMonths == 60
MaxPhaseYears == 9

\* _compute_halving_phases(years, now) for a date nw months from the anchor
PhaseCall ==
    /\ AppQuiet
    /\ \E nw \in -MaxMonths..MaxMonths, years \in 0..MaxPhaseYears :
         calc' = [ phase |-> "returned", fn |-> "_compute_halving_phases",
                   months_since_anchor |-> nw, years |-> years,
                   out |-> [y \in 1..years |-> halving_phase(nw, y)] ]
    /\ UNCHANGED <<now, gcalls, net, val, qp>>
    /\ UNCHANGED <<simVars, optVars>>

\* a / b for a >= 0 as numpy computes it: no exception, inf or nan for b = 0
FloatDiv(a, b) == IF b[1] # 0 THEN RDiv(a, b) ELSE IF a[1] # 0 THEN <<1, 0>> ELSE <<0, 0>>

\* year 0 of simulate_percentiles_and_prob for one path (a contribution
\* year, current_age < retirement_age): h, the price and the value
SimFirstYear ==
    /\ AppQuiet
    /\ \E cp \in {0, 2}, ch \in Holdings, mi \in Investments, factor \in {Half, Two} :
         LET bought == FloatDiv(R(mi * 12), R(cp))
             h1 == IF bought[2] = 0 THEN bought ELSE RAdd(R(ch), bought)
             price1 == RMul(R(cp), factor)
             values_t == IF h1[2] # 0 THEN RMul(h1, price1)
                         ELSE IF price1[1] = 0 THEN <<0, 0>> ELSE h1
         IN  calc' = [ phase |-> "returned", fn |-> "simulate_percentiles_and_prob",
                       current_bitcoin_price |-> cp, current_holdings |-> ch,
                       monthly_investment |-> mi,
                       out |-> [h |-> h1, price |-> price1, value |-> values_t] ]
    /\ UNCHANGED <<now, gcalls, net, val, qp>>
    /\ UNCHANGED <<simVars, optVars>>

AppInit ==
    /\ SimIdle
    /\ OptIdle
    /\ now = ClockStart
    /\ gcalls = <<>>
    /\ net = Idle
    /\ calc = Idle
    /\ val = Idle
    /\ qp = Idle

AppNext ==
    \/ Tick
    \/ GenCall
    \/ GenRepeat
    \/ GenSimulate
    \/ PriceCall
    \/ PriceAttempt
    \/ PriceFallback
    \/ CalcProject
    \/ CalcNeeded
    \/ ValidateCall
    \/ ValidateForm
    \/ QpUpdate
    \/ QpDropKey
    \/ QpLoad
    \/ PhaseCall
    \/ SimFirstYear

SpecApp == AppInit /\ [][AppNext]_vars

(***************************************************************************)
(* Claims about the simulators, checked under SpecSim.                     *)
(***************************************************************************)
YearsUntilRetirement == sc.retirement_age - sc.current_age

StreamReturned == pc \in {"paths", "done", "projected"}
PathsReturned == pc \in {"done", "projected"}

\* C1: given the same matrix and scenario the two simulators return the same
\* success probability, and every streamed percentile of every year equals
\* that percentile of the same year's column of the value matrix returned by
\* simulate_holdings_paths.
C1_SimulatorsAgree ==
    PathsReturned =>
        /\ prob_stream = prob_paths
        /\ \A p \in Percentiles : \A y \in 1..Years(rf) :
               pct_series[p][y] = Percentile([i \in Sims |-> values[i][y]], p)

\* C2 as stated: with monthly_spending = 0 the returned success probability is
\* exactly 1, whatever the other fields of the scenario.
C2_ZeroSpendingAlwaysSucceeds ==
    /\ (StreamReturned /\ sc.monthly_spending = 0) => prob_stream = One
    /\ (PathsReturned /\ sc.monthly_spending = 0) => prob_paths = One

\* C2 amended: with monthly_spending = 0 the returned success probability is
\* exactly 1 when current_holdings > 0 or monthly_investment > 0, and exactly 0
\* when both are 0 (a future that retires with no holdings counts as ruined).
C2_ZeroSpendingSucceedsIffFunded ==
    LET funded == sc.current_holdings > 0 \/ sc.monthly_investment > 0
        expected == IF funded THEN One ELSE Zero
    IN  /\ (StreamReturned /\ sc.monthly_spending = 0) => prob_stream = expected
        /\ (PathsReturned /\ sc.monthly_spending = 0) => prob_paths = expected

C2_Witness ==
    /\ pc = "done"
    /\ sc.monthly_spending = 0
    /\ sc.current_holdings = 0
    /\ sc.monthly_investment > 0
    /\ sc.tax_rate = 150
    /\ prob_stream = One

StreamWithdrawal(i) ==
    RDiv(RMul(R(sc.monthly_spending * 12), Gross(sc.tax_rate)), price[i])

\* C4: in the streaming simulator ruin is absorbing: a future whose holdings
\* minus the year's withdrawal is <= 0 in a withdrawal year is not alive after
\* that year, and a future that is not alive has holdings 0, stays not alive
\* and keeps holdings 0 in every later step.
C4_RuinAbsorbing ==
    [][\A i \in Sims :
          /\ ( /\ pc = "stream"
               /\ t < Years(rf)
               /\ t >= YearsUntilRetirement
               /\ RLe(h[i], StreamWithdrawal(i)) )
             => (~alive'[i] /\ h'[i] = Zero)
          /\ ~alive[i] => (h[i] = Zero /\ ~alive'[i] /\ h'[i] = Zero)]_vars

\* a future ruined in the first withdrawal year, two or more years later
C4_Witness ==
    /\ pc = "stream"
    /\ sc.current_holdings > 0
    /\ sc.monthly_spending > 0
    /\ sc.tax_rate = 0
    /\ t >= YearsUntilRetirement + 2
    /\ \E i \in Sims : ~alive[i] /\ h[i] = Zero
    /\ \E i \in Sims : alive[i]

\* C5: for the same matrix and the other fields fixed, a higher tax_rate never
\* gives a higher success probability, and the gross-up factor is positive
\* and at most 1/1e-6 for every tax_rate, tax_rate >= 100 included.
C5_TaxMonotone ==
    /\ \A tx \in GrossTaxRates :
           RLt(Zero, Gross(tx)) /\ RLe(Gross(tx), R(GROSS_EPS_DEN))
    /\ StreamReturned =>
           \A tx \in TaxRates :
               tx >= sc.tax_rate =>
                   RLe(simulate_percentiles_and_prob(rf, [sc EXCEPT !.tax_rate = tx]),
                       prob_stream)

\* a run where the tax rate decides: it succeeds, and fails at a higher rate
C5_Witness ==
    /\ StreamReturned
    /\ sc.tax_rate = 0
    /\ prob_stream = One
    /\ simulate_percentiles_and_prob(rf, [sc EXCEPT !.tax_rate = 50]) # One
    /\ simulate_percentiles_and_prob(rf, [sc EXCEPT !.tax_rate = 150]) = Zero

(***************************************************************************)
(* Claims about bracket_and_bisect, checked under SpecBisect.              *)
(***************************************************************************)
SynMonotone == syn.kind \in {"ramp", "never"}

\* some x in lower..upper_cap reaches the target
SynReachable == \E x \in bb.lower..bb.upper_cap : RLe(Target, SynEval(x))

\* C6: for a monotone non-decreasing evaluate with evaluate(lower) < target
\* and evaluate(x) >= target for some x <= upper_cap, bracket_and_bisect
\* returns found = true with a value v such that evaluate(v) >= target and
\* evaluate(v - granularity) < target; v is the smallest succeeding probe and
\* the returned probability is evaluate(v).
C6_BisectFindsThreshold ==
    ( /\ bb.phase = "ret"
      /\ bb.getter = "synthetic"
      /\ SynMonotone
      /\ RLt(SynEval(bb.lower), Target)
      /\ SynReachable )
    => /\ bb.found
       /\ RLe(Target, SynEval(bb.value))
       /\ RLt(SynEval(bb.value - bb.granularity), Target)
       /\ bb.prob = SynEval(bb.value)
       /\ \A k \in DOMAIN probes :
              RLe(Target, SynEval(probes[k])) => bb.value <= probes[k]

\* a search that expanded to the cap and bisected down to a threshold that is
\* not a multiple of the granularity
C6_Witness ==
    /\ bb.phase = "ret"
    /\ syn.kind = "ramp"
    /\ syn.k = 290
    /\ bb.upper_cap = 250
    /\ bb.granularity = OPT_GRANULARITY_DOLLARS
    /\ bb.found
    /\ bb.value = 240
    /\ Len(probes) > 5

\* C7: bracket_and_bisect stays inside [lower, upper_cap]: every argument it
\* gives to evaluate is <= upper_cap, the value it returns is <= upper_cap,
\* and when no x in [lower, upper_cap] reaches the target it returns
\* (found = false, upper_cap, last probability).
C7_StaysWithinCap ==
    /\ \A k \in DOMAIN probes : probes[k] <= bb.upper_cap
    /\ bb.phase = "ret" =>
           /\ bb.value <= bb.upper_cap
           /\ ~SynReachable => (~bb.found /\ bb.value = bb.upper_cap)

(***************************************************************************)
(* Claims about _recommend_adjustments, checked under SpecOpt.             *)
(***************************************************************************)
InBand(p) == RLe(OPT_TARGET_PROB, p) /\ RLe(p, OPT_UPPER_TARGET_HINT)

\* C8: when the baseline probability given to the optimizer lies within
\* [0.80, 0.90], no bracket, easing or combination search is started and the
\* function returns the "no changes are needed" message.
C8_BaselineInBandSkipsSearch ==
    (InBand(call.baseline_prob) /\ exc = "none")
    => /\ nsearch = 0
       /\ opc = "returned" => result.kind = "no_change"

\* C9: an exception raised anywhere in _recommend_adjustments (generating the
\* matrix, evaluating a probability, searching) never propagates to the
\* caller: the handler is entered and the function returns the empty string.
C9_ExceptionsCaught ==
    /\ opc # "propagated"
    /\ exc # "none" => opc \in {"except", "returned"}
    /\ (exc # "none" /\ opc = "returned") => result.kind = "empty"

\* the empty string returned after an exception in the middle of a lever search
C9_Witness ==
    /\ opc = "returned"
    /\ exc = "spend"
    /\ result.kind = "empty"
    /\ nsearch = 3

\* C10: within one call the matrix is generated exactly once, with seed
\* OPT_SEED and max(n_sims_used, OPT_SIMS_MIN) paths (never, when generating
\* raised); from then on no step
\* changes it, and the probabilities held by the baseline and by the running
\* search are those of that matrix.
C10_OneMatrixPerCall ==
    /\ [](IF opc = "entry" \/ exc = "entry" THEN gens = <<>> /\ opt_returns = <<>>
          ELSE /\ Len(gens) = 1
               /\ gens[1].seed = OPT_SEED
               /\ gens[1].n_sims = Max2(call.n_sims_used, OPT_SIMS_MIN)
               /\ gens[1].years = HorizonYears(call.inputs)
               /\ DOMAIN opt_returns = 1..gens[1].n_sims
               /\ Years(opt_returns) = gens[1].years)
    /\ []((exc = "none" /\ opc \notin {"entry", "baseline"})
              => loc.current_prob_opt = eval_prob(0, 0, 0))
    /\ [](bb.phase \in {"expand", "bisect"}
              => bb.p_upper = Getter(bb.getter, bb.dy, bb.upper))
    /\ [](bb.phase = "ret" => bb.prob = Getter(bb.getter, bb.dy, bb.value))
    /\ [](eb.phase = "expand" => eb.p_hi = Getter(eb.getter, 0, eb.hi))
    /\ [][opc # "entry" => (opt_returns' = opt_returns /\ gens' = gens)]_vars

\* a call that ran the three lever searches and two combination searches on
\* the matrix of OPT_SIMS_MIN paths generated for a caller that used SIM_FAST
C10_Witness ==
    /\ opc = "returned"
    /\ result.kind = "combo"
    /\ nsearch = 5
    /\ call.n_sims_used = SIM_FAST
    /\ Len(gens) = 1
    /\ gens[1].n_sims = OPT_SIMS_MIN

(***************************************************************************)
(* Claims about the return-factor generators, checked under SpecApp.      *)
(***************************************************************************)
GeneratorCalls == {k \in DOMAIN gcalls : gcalls[k].fn \in {"halving", "regime"}}

\* C11: two calls of a return-factor generator with the same seed and the
\* same years, simulation count and target return the same matrix.
C11_SameSeedSameMatrix ==
    \A i, j \in GeneratorCalls :
        ( /\ gcalls[i].seed # None
          /\ gcalls[i].fn = gcalls[j].fn
          /\ gcalls[i].seed = gcalls[j].seed
          /\ gcalls[i].years = gcalls[j].years
          /\ gcalls[i].n_sims = gcalls[j].n_sims
          /\ gcalls[i].target_arith_return_pct = gcalls[j].target_arith_return_pct )
        => gcalls[i].out = gcalls[j].out

\* C12: every entry of a matrix returned by generate_halving_returns or by
\* simulate_regime_shift_returns is strictly positive.
C12_FactorsPositive ==
    \A k \in GeneratorCalls :
        gcalls[k].out.ok =>
            \A i \in DOMAIN gcalls[k].out.matrix :
                \A y \in DOMAIN gcalls[k].out.matrix[i] :
                    RLt(Zero, gcalls[k].out.matrix[i][y])

\* C20: a non-positive years or simulation count passed to a generator, or
\* a scenario with retirement_age <= current_age passed to the simulator,
\* ends in an error, never in a matrix or a probability.
C20_ConfigErrorsRejected ==
    \A k \in DOMAIN gcalls :
        LET c == gcalls[k]
        IN  /\ (c.fn \in {"halving", "regime"} /\ (c.years <= 0 \/ c.n_sims <= 0))
                  => ~c.out.ok
            /\ (c.fn = "simulate" /\ c.scenario.retirement_age <= c.scenario.current_age)
                  => ~c.out.ok

(***************************************************************************)
(* Claims about get_bitcoin_price, checked under SpecApp.                  *)
(***************************************************************************)
PriceCallEnded == net.phase \in {"returned", "TypeError"}
AllAttemptsFailed == \A k \in DOMAIN net.responses : PriceOf(net.responses[k]) = 0

\* C13: with quick_fail=True get_bitcoin_price makes exactly one request
\* whatever max_attempts is; when that request fails it returns the
\* fallback price without sleeping, with exactly two warnings.
C13_QuickFailOneRequest ==
    (PriceCallEnded /\ net.quick_fail = "True") =>
        /\ net.phase = "returned"
        /\ Len(net.responses) = 1
        /\ AllAttemptsFailed =>
              /\ net.price = net.fallback_price
              /\ net.sleeps = <<>>
              /\ net.warnings = 2

\* C14 as stated: when every attempt fails the call makes max_attempts
\* requests on one session, sleeps exactly base_delay * 2^k after failed
\* attempt k+1 except the last, and returns the fallback price with
\* max_attempts + 1 warnings.
C14_ExactBackoff ==
    (net.phase = "returned" /\ AllAttemptsFailed) =>
        /\ Len(net.responses) = net.max_attempts
        /\ net.sessions = 1
        /\ Len(net.sleeps) = Max2(net.max_attempts - 1, 0)
        /\ \A k \in DOMAIN net.sleeps : net.sleeps[k] = net.base_delay * 2^(k - 1)
        /\ net.price = net.fallback_price
        /\ net.warnings = net.max_attempts + 1

\* C14 amended: the same, with each sleep equal to base_delay * 2^k when
\* jitter is 0 and between base_delay * 2^k and base_delay * 2^k + jitter
\* otherwise.
C14_BackoffWithJitter ==
    (net.phase = "returned" /\ AllAttemptsFailed) =>
        /\ Len(net.responses) = net.max_attempts
        /\ net.sessions = 1
        /\ Len(net.sleeps) = Max2(net.max_attempts - 1, 0)
        /\ \A k \in DOMAIN net.sleeps :
              /\ net.sleeps[k] >= net.base_delay * 2^(k - 1)
              /\ net.sleeps[k] <= net.base_delay * 2^(k - 1) + net.jitter
        /\ net.price = net.fallback_price
        /\ net.warnings = net.max_attempts + 1

C14_Witness ==
    /\ net.phase = "returned"
    /\ AllAttemptsFailed
    /\ net.max_attempts = DEFAULT_MAX_ATTEMPTS
    /\ net.jitter = 2
    /\ net.base_delay = 2
    /\ net.sleeps = <<3, 5>>
    /\ net.warnings = 4

\* C15: when the service answers a request with a positive price p in the
\* "USD" field of the body, the call returns p on that attempt, with no
\* warning and no fallback.
C15_UsdPriceReturned ==
    net.phase \in {"loop", "returned"} =>
      \A k \in DOMAIN net.responses :
        (net.responses[k].field = "USD" /\ net.responses[k].price > 0) =>
            /\ k = Len(net.responses)
            /\ net.phase = "returned"
            /\ net.price = net.responses[k].price
            /\ (k = 1 => net.warnings = 0)

(***************************************************************************)
(* Claims about calculations.py, checked under SpecApp.                    *)
(***************************************************************************)
\* the recurrence of test_project_holdings_over_time_matches_manual_calculation:
\* the holdings after the step of age current_age + y
RECURSIVE ManualHoldings(_, _, _, _)
ManualHoldings(s, g, inf, y) ==
    LET before == IF y = 0 THEN R(s.current_holdings) ELSE ManualHoldings(s, g, inf, y - 1)
        price_y == RMul(R(s.current_bitcoin_price), RPow(RAdd(One, Rat(g, 100)), y))
        age == s.current_age + y
        annual_expense == RMul(RMul(R(s.monthly_spending * 12),
                                    RPow(RAdd(One, Rat(inf, 100)), y)), Gross(s.tax_rate))
    IN  IF age < s.retirement_age
        THEN RMax(RAdd(before, RDiv(R(s.monthly_investment * 12), price_y)), Zero)
        ELSE RMax(RSub(before, RDiv(annual_expense, price_y)), Zero)

Projected == calc.phase = "returned" /\ calc.fn = "project_holdings_over_time"

\* C16: for current_age < retirement_age <= life_expectancy the projection
\* has one value per age from current_age to life_expectancy, and each
\* value equals the recurrence that floors at zero after every year.
C16_ProjectionIsRecurrence ==
    Projected =>
        /\ DOMAIN calc.out = 1 .. (calc.s.life_expectancy - calc.s.current_age + 1)
        /\ \A y \in DOMAIN calc.out :
              calc.out[y] = ManualHoldings(calc.s, calc.bitcoin_growth_rate,
                                           calc.inflation_rate, y - 1)

\* a projection that runs out before the last year: the running sum is
\* negative where the projection is zero
C16_Witness ==
    /\ Projected
    /\ calc.s.retirement_age = calc.s.life_expectancy - 1
    /\ calc.s.monthly_investment > 0
    /\ calc.out[Len(calc.out) - 1] = Zero
    /\ calc.out[Len(calc.out)] = Zero
    /\ calc.out[Len(calc.out) - 2] # Zero
    /\ RLt(CumHoldings(calc.s, calc.bitcoin_growth_rate, calc.inflation_rate,
                       Len(calc.out) - 2), Zero)

\* C17: with tax_rate = 0, bitcoin_needed equals total_retirement_expenses
\* divided by future_bitcoin_price, total_retirement_expenses being
\* calculate_total_future_expenses of the annual expense at retirement over
\* the retirement duration.
C17_NeededIsTotalOverPrice ==
    (calc.phase = "returned" /\ calc.fn = "calculate_bitcoin_needed" /\ calc.s.tax_rate = 0) =>
        /\ calc.out.total_retirement_expenses =
              calculate_total_future_expenses(calc.out.annual_expense_at_retirement,
                  calc.s.life_expectancy - calc.s.retirement_age, calc.inflation_rate)
        /\ calc.out.bitcoin_needed =
              RDiv(calc.out.total_retirement_expenses, calc.out.future_bitcoin_price)

(***************************************************************************)
(* Claims about validate_inputs, checked under SpecApp.                    *)
(***************************************************************************)
InvestmentErrors ==
    {k \in DOMAIN val.errors :
        val.errors[k] \in {"Monthly investment cannot be negative",
                           "Monthly investment must be positive if growth rate is positive"}}

OtherInputsValid ==
    /\ AGE_MIN <= val.a.current_age
    /\ val.a.current_age < val.a.retirement_age
    /\ val.a.retirement_age < val.a.life_expectancy
    /\ val.a.life_expectancy <= AGE_MAX
    /\ val.a.monthly_spending >= SPENDING_MIN
    /\ val.a.bitcoin_growth_rate >= 0
    /\ val.a.inflation_rate >= 0
    /\ val.a.current_holdings >= 0
    /\ val.a.current_holdings <= HOLDINGS_MAX

\* C18: validate_inputs returns no error when monthly_investment is 0, the
\* growth rate is positive and every other input is valid; a
\* monthly-investment error is reported only for a negative
\* monthly_investment.
C18_ZeroInvestmentAllowed ==
    val.phase = "returned" =>
        /\ (val.a.monthly_investment = 0 /\ val.a.bitcoin_growth_rate > 0 /\ OtherInputsValid)
              => val.errors = <<>>
        /\ InvestmentErrors # {} => val.a.monthly_investment < 0

(***************************************************************************)
(* Claims about the query-parameter functions, checked under SpecApp.      *)
(***************************************************************************)
\* the session state update_query_params wrote to the URL holds, under
\* every key, a value of the type of the key's default
WrittenWellTyped ==
    \A key \in DOMAIN QUERY_PARAM_DEFAULTS :
        qp.written[key].type = QUERY_PARAM_DEFAULTS[key].type

MissingKeysDefaulted ==
    /\ qp.all_present = (qp.dropped = {})
    /\ \A key \in qp.dropped : qp.inputs[key] = QUERY_PARAM_DEFAULTS[key]
    /\ qp.session_state = qp.inputs

\* C19 as stated: after update_query_params, load_from_query_params on an
\* emptied session returns the written inputs with the same values and
\* types, stores them in the session state and reports all_present; an
\* absent key gets its default and all_present is false.
C19_RoundTrip ==
    qp.phase = "loaded" =>
        /\ MissingKeysDefaulted
        /\ \A key \in DOMAIN QUERY_PARAM_DEFAULTS \ qp.dropped :
              qp.inputs[key] = qp.written[key]

\* C19 amended: the same when every written value has the type of its
\* key's default; whatever was written, every loaded value has that type.
C19_TypedRoundTrip ==
    qp.phase = "loaded" =>
        /\ MissingKeysDefaulted
        /\ \A key \in DOMAIN QUERY_PARAM_DEFAULTS :
              qp.inputs[key].type = QUERY_PARAM_DEFAULTS[key].type
        /\ WrittenWellTyped =>
              \A key \in DOMAIN QUERY_PARAM_DEFAULTS \ qp.dropped :
                  qp.inputs[key] = qp.written[key]

C19_Witness ==
    /\ qp.phase = "loaded"
    /\ WrittenWellTyped
    /\ qp.dropped = {}
    /\ qp.all_present
    /\ qp.query_params["monthly_spending"] = <<"4", "0", ".", "0">>
    /\ qp.inputs["monthly_spending"] = PyFloat(400)
    /\ qp.inputs["current_age"] = PyInt(30)

(***************************************************************************)
(* Claims about the price lag and the zero price, checked under SpecSim.   *)
(***************************************************************************)
\* the price at the start of year y (0-based) of simulation i
StartOfYearPrice(i, y) == RMul(R(sc.current_bitcoin_price), CumProd(rf[i], y))

\* the holdings of simulation i after y years, every year converted at the
\* price of its start
RECURSIVE LaggedHoldings(_, _)
LaggedHoldings(i, y) ==
    IF y = 0 THEN R(sc.current_holdings)
    ELSE IF y - 1 < sc.retirement_age - sc.current_age
    THEN RAdd(LaggedHoldings(i, y - 1),
              RDiv(R(sc.monthly_investment * 12), StartOfYearPrice(i, y - 1)))
    ELSE RMax(Zero, RSub(LaggedHoldings(i, y - 1),
                         RDiv(RMul(R(sc.monthly_spending * 12), Gross(sc.tax_rate)),
                              StartOfYearPrice(i, y - 1))))

C21_StreamLag ==
    \A i \in Sims : price[i] = StartOfYearPrice(i, t) /\ h[i] = LaggedHoldings(i, t)

\* C21: in both simulators year t is converted at the start-of-year price
\* current_price * returns[0] * .. * returns[t-1], and the return of year t
\* reaches the price only after the holdings update of year t.
C21_OneYearLag ==
    /\ C21_StreamLag
    /\ \A i \in Sims : ph[i] = LaggedHoldings(i, pt)

\* C26: a zero price causes no division by zero in the simulator: holdings
\* and reported values stay finite when current_price = 0.
C26_ZeroPriceStaysFinite ==
    (calc.phase = "returned" /\ calc.fn = "simulate_percentiles_and_prob"
        /\ calc.current_bitcoin_price = 0) =>
        /\ calc.out.h[2] # 0
        /\ calc.out.value[2] # 0

(***************************************************************************)
(* Claims about the halving phases, checked under SpecApp.                 *)
(***************************************************************************)
\* the phase p of the month offset m: m = 48 q + 12 p + r with 0 <= r < 12
PhaseOfOffset(m) ==
    CHOOSE p \in 0..3 :
        \E q \in -(MaxMonths \div 48 + 1) .. (MaxMonths \div 48 + MaxPhaseYears \div 4 + 1), r \in 0..11 :
            m = 48 * q + 12 * p + r

\* C22: for every date, before or after the anchor, and every year y >= 0
\* the phase is ((months_since_anchor + 12 y + 6) mod 48) div 12, lies in
\* 0..3, advances by one modulo 4 from a year to the next and repeats
\* every 4 years.
C22_PhasesCycle ==
    (calc.phase = "returned" /\ calc.fn = "_compute_halving_phases") =>
        \A y \in DOMAIN calc.out :
            /\ calc.out[y] \in 0..3
            /\ calc.out[y] = PhaseOfOffset(calc.months_since_anchor + 12 * (y - 1) + 6)
            /\ (y + 1 \in DOMAIN calc.out) => calc.out[y + 1] = (calc.out[y] + 1) % 4
            /\ (y + 4 \in DOMAIN calc.out) => calc.out[y + 4] = calc.out[y]

C22_Witness ==
    /\ calc.phase = "returned"
    /\ calc.fn = "_compute_halving_phases"
    /\ calc.months_since_anchor = -7
    /\ calc.years = 6
    /\ calc.out = <<3, 0, 1, 2, 3, 0>>

(***************************************************************************)
(* Claims about input validation, checked under SpecApp.                   *)
(***************************************************************************)
ViolatesInvariant(a) ==
    \/ ~(a.current_age < a.retirement_age /\ a.retirement_age < a.life_expectancy)
    \/ a.monthly_spending < 0
    \/ a.monthly_investment < 0
    \/ a.current_holdings < 0
    \/ a.bitcoin_growth_rate < 0
    \/ a.inflation_rate < 0
    \/ ("tax_rate" \in DOMAIN a /\ ~(0 <= a.tax_rate /\ a.tax_rate < 60))

\* C25: validation reports at least one error for every scenario that
\* breaks the age ordering, has a negative spending, investment, holdings,
\* growth or inflation rate, or a tax_rate outside [0, 60).
C25_InvalidInputsReported ==
    (val.phase # "idle" /\ ViolatesInvariant(val.a)) =>
        /\ val.phase = "returned"
        /\ val.errors # <<>>

(***************************************************************************)
(* C23: the combination block.                                             *)
(***************************************************************************)
\* the normalized-cost metric that ranks the single levers (CollectOptions),
\* summed over the two levers of a combination
WeightedCost(c) ==
    RAdd(IF c.key = "invest"
         THEN RMul(OPT_WEIGHT_INVEST, Rat(c.amount, Max2(base_invest, 1)))
         ELSE RMul(OPT_WEIGHT_EXPENSE, Rat(c.amount, Max2(base_spend, 1))),
         RMul(OPT_WEIGHT_RETIRE_YEAR, Rat(c.dy, RetireHorizon)))

\* the combination block has run and the function has returned its message
ComboBlockDone == opc = "returned" /\ result.kind \in {"combo", "infeasible"}

\* the block ran both searches for every delay 1..max_retire_years, and
\* reports a combination exactly when one succeeded
CombosAllSearched ==
    ComboBlockDone =>
        /\ nsearch = 3 + 2 * max_retire_years
        /\ (result.kind = "infeasible") = (loc.combos = <<>>)
        /\ result.kind = "combo" =>
               \E i \in DOMAIN loc.combos : result.text = <<loc.combos[i]>>

\* C23: the reported combination is a succeeding combination of least
\* weighted normalized cost; with none succeeding the target is reported
\* as not reachable
C23_CheapestWeightedCombination ==
    /\ CombosAllSearched
    /\ (ComboBlockDone /\ result.kind = "combo") =>
           \A i \in DOMAIN loc.combos :
               RLe(WeightedCost(result.text[1]), WeightedCost(loc.combos[i]))
(***************************************************************************)
(* C24, C29: the easing searches.                                          *)
(***************************************************************************)
\* the probability at the relaxation x of the running search is >= target
EaseKeeps(x) == RLe(Target, Getter(eb.getter, 0, x))

\* x is a whole number of granularity steps, none or more, within the cap
OnEaseGrid(x) == x >= 0 /\ x <= eb.upper_cap /\ x % eb.granularity = 0

\* C24: an easing search returns the largest relaxation on the grid within
\* the cap that keeps the probability at or above the target, and 0 only
\* when not even one step keeps it
C24_LargestRelaxation ==
    eb.phase = "ret" =>
        /\ OnEaseGrid(eb.value)
        /\ EaseKeeps(eb.value)
        /\ \/ eb.value + eb.granularity > eb.upper_cap
           \/ ~EaseKeeps(eb.value + eb.granularity)
        /\ eb.value = 0 =>
               \/ eb.granularity > eb.upper_cap
               \/ ~EaseKeeps(eb.granularity)

\* the cap of the lever an easing phrase is about
EaseCap(key) ==
    CASE key = "invest" -> invest_reduce_cap
      [] key = "retire" -> max_advance_years
      [] key = "spend" -> spend_increase_cap

\* C29: every amount of the easing message is within the cap of its lever
C29_EaseWithinCaps ==
    (opc = "returned" /\ result.kind = "ease") =>
        \A i \in DOMAIN result.text : result.text[i].amount <= EaseCap(result.text[i].key)

(***************************************************************************)
(* C27: eval_prob is monotone in each lever.                               *)
(***************************************************************************)
\* changes of a monthly amount (for the spending: cuts), in increasing order
MoneyDeltas == <<-500000, -2000, -50, -10, 0, 10, 50, 2000, 22010, 104010, 404000>>

\* changes of the retirement age that keep it above current_age, in
\* increasing order up to life_expectancy - 1 and one beyond
RetireDeltas ==
    [k \in 1..(call.inputs.life_expectancy - call.inputs.current_age - 1) |->
        k + call.inputs.current_age - call.inputs.retirement_age]

\* eval_prob(0.0, 0, 0.0) has just returned: call and opt_returns, which are
\* all that eval_prob reads, stay as they are until the function returns
Evaluated ==
    \/ opc = "invest" /\ bb.phase = "call"
    \/ opc = "returned" /\ result.kind = "no_change"

\* C27: on the optimizer's matrix, more investment, less spending or a later
\* retirement never lowers the probability eval_prob returns
C27_EvalMonotone ==
    Evaluated =>
        /\ \A k \in 1..(Len(MoneyDeltas) - 1) :
               /\ RLe(eval_prob(MoneyDeltas[k], 0, 0), eval_prob(MoneyDeltas[k + 1], 0, 0))
               /\ RLe(eval_prob(0, 0, MoneyDeltas[k]), eval_prob(0, 0, MoneyDeltas[k + 1]))
        /\ \A k \in 1..(Len(RetireDeltas) - 1) :
               RLe(eval_prob(0, RetireDeltas[k], 0), eval_prob(0, RetireDeltas[k + 1], 0))

\* every lever strictly raises the probability somewhere on one matrix
C27_Witness ==
    /\ Evaluated
    /\ \E k \in 1..(Len(MoneyDeltas) - 1) :
           RLt(eval_prob(MoneyDeltas[k], 0, 0), eval_prob(MoneyDeltas[k + 1], 0, 0))
    /\ \E k \in 1..(Len(MoneyDeltas) - 1) :
           RLt(eval_prob(0, 0, MoneyDeltas[k]), eval_prob(0, 0, MoneyDeltas[k + 1]))
    /\ \E k \in 1..(Len(RetireDeltas) - 1) :
           RLt(eval_prob(0, RetireDeltas[k], 0), eval_prob(0, RetireDeltas[k + 1], 0))

(***************************************************************************)
(* C28: both searches terminate.                                           *)
(***************************************************************************)
\* the argument the getter was last called with
LastProbe == probes'[Len(probes')]

\* an iteration of an expansion loop moves the upper end up, not past the cap
ExpansionClimbs ==
    /\ (bb.phase = "expand" /\ bb'.phase = "expand" /\ bb' # bb) =>
           bb.upper < bb'.upper /\ bb'.upper <= bb.upper_cap
    /\ (eb.phase = "expand" /\ eb'.phase = "expand" /\ eb' # eb) =>
           eb.hi < eb'.hi /\ eb'.hi <= eb.upper_cap

\* an iteration of a bisection loop probes strictly inside the bracket and
\* leaves a narrower bracket
BisectionNarrows ==
    /\ (bb.phase = "bisect" /\ bb'.phase = "bisect") =>
           /\ bb.lo < LastProbe /\ LastProbe < bb.hi
           /\ bb'.hi - bb'.lo < bb.hi - bb.lo
    /\ (eb.phase = "bisect" /\ eb'.phase = "bisect") =>
           /\ eb.left < LastProbe /\ LastProbe < eb.right
           /\ eb'.right - eb'.left < eb.right - eb.left

\* C28: whatever the evaluate function, a call of either search returns;
\* each expansion step climbs towards the cap and each bisection step probes
\* strictly inside the bracket and narrows it
C28_SearchesTerminate ==
    /\ <>(opc = "done")
    /\ [][ExpansionClimbs /\ BisectionNarrows]_vars

\* an easing search has returned after expanding to its cap and bisecting
C28_Witness ==
    /\ opc = "done"
    /\ eb.phase = "ret"
    /\ eb.hi = eb.upper_cap
    /\ eb.hi > 2 * eb.upper_init
    /\ Len(probes) >= 6

(***************************************************************************)
(* C30: the scenarios eval_prob hands to the simulator.                    *)
(***************************************************************************)
\* the scenario the getter g builds for the argument x
GetterScenario(g, dy, x) ==
    CASE g = "invest" -> EvalScenario(x, 0, 0)
      [] g = "retire" -> EvalScenario(0, IntRound(x), 0)
      [] g = "spend" -> EvalScenario(0, 0, x)
      [] g = "combo_invest" -> EvalScenario(x, dy, 0)
      [] g = "combo_spend" -> EvalScenario(0, dy, x)
      [] g = "ease_invest" -> EvalScenario(-x, 0, 0)
      [] g = "ease_retire" -> EvalScenario(0, -IntRound(x), 0)
      [] g = "ease_spend" -> EvalScenario(0, 0, -x)

\* the invariants of a scenario that the levers can touch
LeversValid(s) ==
    /\ s.current_age < s.retirement_age
    /\ s.retirement_age < s.life_expectancy
    /\ s.monthly_investment >= 0
    /\ s.monthly_spending >= SPENDING_MIN

\* the scenarios the search that is running, or has just returned, has
\* handed to the simulator so far
ProbedScenarios ==
    IF bb.phase # "idle"
    THEN { GetterScenario(bb.getter, bb.dy, probes[k]) : k \in DOMAIN probes }
    ELSE IF eb.phase # "idle"
    THEN { GetterScenario(eb.getter, 0, probes[k]) : k \in DOMAIN probes }
    ELSE {}

\* C30: the baseline and every scenario a lever search, an easing search or
\* a combination search passes to the simulator keeps the ages in order,
\* the investment non-negative and the spending at or above SPENDING_MIN
C30_ProbedScenariosValid ==
    opc \in TryBlock \ {"entry", "baseline"} =>
        /\ LeversValid(EvalScenario(0, 0, 0))
        /\ \A s \in ProbedScenarios : LeversValid(s)

\* an easing search has brought retirement forward by more than a year, down
\* to current_age + 1
C30_Witness ==
    /\ opc = "ease_retire"
    /\ \E s \in ProbedScenarios : s.retirement_age = s.current_age + 1
    /\ \E s \in ProbedScenarios : s.retirement_age < base_retire - 1
====
